---- MODULE Spec2Model ----
(***************************************************************************)
(* Partial-document update engine of the PPTX notes server:                *)
(* mcp_server/core/safe_editor.py (resolution, rewriting, container        *)
(* streaming, temp-file + rename commit) and the batch tool handler of     *)
(* mcp_server/tools/notes_tools.py with its validator.                     *)
(*                                                                         *)
(* Strings that the code takes apart are sequences: a zip entry name or a  *)
(* relationship target is the sequence of its '/'-separated segments, a    *)
(* notes text is the sequence of its characters.                           *)
(***************************************************************************)
EXTENDS Integers, Sequences, FiniteSets, TLC

\* Longest batch of update requests handed to one call.
MaxBatch == 3
\* Longest notes text given to the rewriter on its own.
MaxTextLen == 3
\* Most operations made on one cache.
MaxOps == 5

-----------------------------------------------------------------------------
(* Characters and texts *)

LF == "\n"
CR == "\r"
TAB == "\t"
\* A control character of the class [\x00-\x08\x0b-\x0c\x0e-\x1f].
CTL == "\\x01"
\* The two marker prefixes, each taken as one unit of text.
ShortMarker == "- Short version:"
OriginalMarker == "- Original:"

\* str.replace("\r\n", "\n")
RECURSIVE ReplaceCRLF(_)
ReplaceCRLF(s) ==
    IF s = <<>> THEN <<>>
    ELSE IF Len(s) >= 2 /\ s[1] = CR /\ s[2] = LF
         THEN <<LF>> \o ReplaceCRLF(SubSeq(s, 3, Len(s)))
         ELSE <<s[1]>> \o ReplaceCRLF(Tail(s))

\* str.replace("\r", "\n")
ReplaceCR(s) == [k \in 1..Len(s) |-> IF s[k] = CR THEN LF ELSE s[k]]

\* the control characters left where they are
SubControlKept(s) == s

\* re.sub(r'[\x00-\x08\x0b-\x0c\x0e-\x1f]', '\n', s)
SubControl(s) == [k \in 1..Len(s) |-> IF s[k] = CTL THEN LF ELSE s[k]]

cleaned_text(notes_text) == SubControl(ReplaceCR(ReplaceCRLF(notes_text)))

\* str.split("\n"): always at least one line.
RECURSIVE SplitLF(_, _)
SplitLF(s, cur) ==
    IF s = <<>> THEN <<cur>>
    ELSE IF s[1] = LF THEN <<cur>> \o SplitLF(Tail(s), <<>>)
         ELSE SplitLF(Tail(s), Append(cur, s[1]))

\* the text split without being cleaned first
linesUncleaned(notes_text) == SplitLF(notes_text, <<>>)

lines(notes_text) == SplitLF(cleaned_text(notes_text), <<>>)

IsSpace(c) == c \in {" ", TAB, LF, CR}

\* str.strip()
RECURSIVE LStrip(_)
LStrip(s) == IF s # <<>> /\ IsSpace(s[1]) THEN LStrip(Tail(s)) ELSE s
RECURSIVE RStrip(_)
RStrip(s) ==
    IF s # <<>> /\ IsSpace(s[Len(s)]) THEN RStrip(SubSeq(s, 1, Len(s) - 1)) ELSE s
line_stripped(line) == RStrip(LStrip(line))

StartsWith(s, c) == s # <<>> /\ s[1] = c

\* the markers looked for at the very start of the line
is_bold_unstripped(line) ==
    \/ StartsWith(line, ShortMarker)
    \/ StartsWith(line, OriginalMarker)

is_bold(line) ==
    \/ StartsWith(line_stripped(line), ShortMarker)
    \/ StartsWith(line_stripped(line), OriginalMarker)

\* ''.join(char for char in line if ord(char) >= 32 or char in '\n\r\t')
RECURSIVE clean_line(_)
clean_line(line) ==
    IF line = <<>> THEN <<>>
    ELSE IF line[1] = CTL THEN clean_line(Tail(line))
         ELSE <<line[1]>> \o clean_line(Tail(line))

-----------------------------------------------------------------------------
(* Notes parts.  A parsed notes part is its list of p:sp shapes; a shape   *)
(* has a placeholder type ("" when it has none), the namespace of its      *)
(* txBody ("p", "a", or "" when it has none) and the children of that      *)
(* txBody.  canon says whether the bytes are what etree.tostring emits.    *)

Para(bold, text) == [tag |-> "p", b |-> bold, t |-> text]
Other(tag) == [tag |-> tag, b |-> FALSE, t |-> <<>>]

NewParagraphs(notes_text) ==
    [k \in 1..Len(lines(notes_text)) |->
        Para(is_bold(lines(notes_text)[k]), clean_line(lines(notes_text)[k]))]

\* the children left as they are
KeepParagraphs(kids) == kids

RECURSIVE DropParagraphs(_)
DropParagraphs(kids) ==
    IF kids = <<>> THEN <<>>
    ELSE IF kids[1].tag = "p" THEN DropParagraphs(Tail(kids))
         ELSE <<kids[1]>> \o DropParagraphs(Tail(kids))

\* index of the last shape with a body placeholder, 0 if none
LastBodyShape(shapes) ==
    IF \E k \in 1..Len(shapes) : shapes[k].ph = "body"
    THEN CHOOSE k \in 1..Len(shapes) :
            /\ shapes[k].ph = "body"
            /\ \A m \in (k + 1)..Len(shapes) : shapes[m].ph # "body"
    ELSE 0

\* index of the first shape satisfying the xpath predicate, 0 if none
FirstBodyShape(shapes) ==
    IF \E k \in 1..Len(shapes) : shapes[k].ph = "body"
    THEN CHOOSE k \in 1..Len(shapes) :
            /\ shapes[k].ph = "body"
            /\ \A m \in 1..(k - 1) : shapes[m].ph # "body"
    ELSE 0

FirstTextShape(shapes) ==
    IF \E k \in 1..Len(shapes) : shapes[k].tx = "a"
    THEN CHOOSE k \in 1..Len(shapes) :
            /\ shapes[k].tx = "a"
            /\ \A m \in 1..(k - 1) : shapes[m].tx # "a"
    ELSE 0

TargetShape(shapes) ==
    IF FirstBodyShape(shapes) # 0 THEN FirstBodyShape(shapes) ELSE FirstTextShape(shapes)

\* the part serialized anew also when no text body was found
_set_notes_text_serialized(notes_xml, notes_text) ==
    LET sp == TargetShape(notes_xml.shapes) IN
    IF sp = 0 THEN [notes_xml EXCEPT !.canon = TRUE]
    ELSE IF notes_xml.shapes[sp].tx = "" THEN [notes_xml EXCEPT !.canon = TRUE]
    ELSE [notes_xml EXCEPT
            !.canon = TRUE,
            !.shapes[sp].kids =
                DropParagraphs(notes_xml.shapes[sp].kids) \o NewParagraphs(notes_text)]

\* the new paragraphs put before the children that are kept
_set_notes_text_prepending(notes_xml, notes_text) ==
    LET sp == TargetShape(notes_xml.shapes) IN
    IF sp = 0 THEN notes_xml
    ELSE IF notes_xml.shapes[sp].tx = "" THEN notes_xml
    ELSE [notes_xml EXCEPT
            !.canon = TRUE,
            !.shapes[sp].kids =
                NewParagraphs(notes_text) \o DropParagraphs(notes_xml.shapes[sp].kids)]

_set_notes_text(notes_xml, notes_text) ==
    LET sp == TargetShape(notes_xml.shapes) IN
    IF sp = 0 THEN notes_xml
    ELSE IF notes_xml.shapes[sp].tx = "" THEN notes_xml
    ELSE [notes_xml EXCEPT
            !.canon = TRUE,
            !.shapes[sp].kids =
                DropParagraphs(notes_xml.shapes[sp].kids) \o NewParagraphs(notes_text)]

-----------------------------------------------------------------------------
(* Zip containers.  A file is absent, an empty file, or a zip archive with *)
(* the entries written so far; complete says whether the central directory *)
(* has been written, so that the file opens as a container.                *)

Absent == [kind |-> "absent", entries |-> <<>>, complete |-> FALSE]
EmptyFile == [kind |-> "empty", entries |-> <<>>, complete |-> FALSE]
ZipFile(entries, complete) == [kind |-> "zip", entries |-> entries, complete |-> complete]

ZIP_STORED == "ZIP_STORED"
ZIP_DEFLATED == "ZIP_DEFLATED"

\* the entries taken in another order than the archive's
infolistReversed(zfile) ==
    [k \in 1..Len(zfile.entries) |-> zfile.entries[Len(zfile.entries) + 1 - k]]

infolist(zfile) == zfile.entries
namelist(zfile) == [k \in 1..Len(zfile.entries) |-> zfile.entries[k].filename]
HasEntry(zfile, name) == \E k \in 1..Len(zfile.entries) : zfile.entries[k].filename = name

\* ZipFile.read(name): the payload of the entry registered under the name
\* (the last one, were a name repeated).
read(zfile, name) ==
    LET k == CHOOSE k \in 1..Len(zfile.entries) :
                /\ zfile.entries[k].filename = name
                /\ \A m \in (k + 1)..Len(zfile.entries) : zfile.entries[m].filename # name
    IN zfile.entries[k].data

-----------------------------------------------------------------------------
(* Relationship resolution *)

NotesSlideType == "http://schemas.openxmlformats.org/officeDocument/2006/relationships/notesSlide"
SlideLayoutType == "http://schemas.openxmlformats.org/officeDocument/2006/relationships/slideLayout"

\* f"slide{slide_no}.xml.rels"
RelsFileName(slide_no) ==
    CASE slide_no = 0 -> "slide0.xml.rels"
      [] slide_no = 1 -> "slide1.xml.rels"
      [] slide_no = 2 -> "slide2.xml.rels"
      [] slide_no = 3 -> "slide3.xml.rels"
      [] slide_no = 4 -> "slide4.xml.rels"
      [] OTHER -> "slide?.xml.rels"

rel_path(slide_no) == <<"ppt", "slides", "_rels", RelsFileName(slide_no)>>

\* None, and every other value that `if not notes_part` takes for absent.
None == <<>>

Relationships(rel_xml) == IF rel_xml.kind = "rels" THEN rel_xml.rels ELSE <<>>

\* target.replace("\\", "/"), then one leading "../" removed, then "ppt/" prefixed
NormalizeTarget(target) ==
    IF StartsWith(target.segs, "..")
    THEN <<"ppt">> \o Tail(target.segs)
    ELSE <<"ppt">> \o target.segs

_notes_part_for_slide(zip_in, slide_no) ==
    IF ~HasEntry(zip_in, rel_path(slide_no)) THEN None
    ELSE LET rels == Relationships(read(zip_in, rel_path(slide_no)))
             hits == {k \in 1..Len(rels) : rels[k].Type = NotesSlideType}
         IN IF hits = {} THEN None
            ELSE LET first == CHOOSE k \in hits : \A m \in hits : k <= m
                 IN IF rels[first].Target.segs = <<>> THEN None
                    ELSE NormalizeTarget(rels[first].Target)

-----------------------------------------------------------------------------
(* Sample presentations *)

Rel(type, sep, segs, mode) ==
    [Type |-> type, Target |-> [sep |-> sep, segs |-> segs], TargetMode |-> mode]

RelsXml(rels) == [kind |-> "rels", rels |-> rels]
Bin(id) == [kind |-> "bin", id |-> id]
Shape(ph, tx, kids) == [ph |-> ph, tx |-> tx, kids |-> kids]
NotesXml(canon, shapes) == [kind |-> "notes", canon |-> canon, shapes |-> shapes]

Entry(name, data, method, stamp, ext, int, extra, comment) ==
    [filename |-> name, data |-> data, compress_type |-> method, date_time |-> stamp,
     external_attr |-> ext, internal_attr |-> int, extra |-> extra, comment |-> comment,
     create_system |-> 0]

SlideName(n) ==
    <<"ppt", "slides",
      CASE n = 1 -> "slide1.xml" [] n = 2 -> "slide2.xml" [] OTHER -> "slide3.xml">>
NotesName(n) ==
    <<"ppt", "notesSlides",
      CASE n = 1 -> "notesSlide1.xml" [] n = 2 -> "notesSlide2.xml"
        [] OTHER -> "notesSlide3.xml">>
NotesTarget(n) == <<"..", "notesSlides", NotesName(n)[3]>>
LayoutRel == Rel(SlideLayoutType, "/", <<"..", "slideLayouts", "slideLayout1.xml">>, "")

OldNotes(word) ==
    NotesXml(FALSE,
        << Shape("sldImg", "", <<>>),
           Shape("body", "p", <<Other("bodyPr"), Other("lstStyle"), Para(FALSE, <<word>>)>>) >>)

\* Three slides; slides 1 and 2 have notes (those of slide 2 stored
\* uncompressed), slide 3 has a relationships part without a notes relationship.
DeckA ==
    << Entry(<<"[Content_Types].xml">>, Bin(1), ZIP_DEFLATED, 1, 0, 1, "", ""),
       Entry(SlideName(1), Bin(2), ZIP_DEFLATED, 2, 0, 1, "", ""),
       Entry(rel_path(1),
             RelsXml(<<LayoutRel, Rel(NotesSlideType, "/", NotesTarget(1), "")>>),
             ZIP_DEFLATED, 2, 0, 1, "", ""),
       Entry(NotesName(1), OldNotes("h"), ZIP_DEFLATED, 3, 0, 1, "", "n1"),
       Entry(SlideName(2), Bin(3), ZIP_DEFLATED, 2, 0, 1, "", ""),
       Entry(rel_path(2),
             RelsXml(<<Rel(NotesSlideType, "\\", NotesTarget(2), ""), LayoutRel>>),
             ZIP_DEFLATED, 2, 0, 1, "", ""),
       Entry(NotesName(2), OldNotes("w"), ZIP_STORED, 4, 32, 0, "ux", ""),
       Entry(SlideName(3), Bin(4), ZIP_DEFLATED, 2, 0, 1, "", ""),
       Entry(rel_path(3), RelsXml(<<LayoutRel>>), ZIP_DEFLATED, 2, 0, 1, "", ""),
       Entry(<<"ppt", "media", "image1.png">>, Bin(5), ZIP_STORED, 5, 33, 0, "ts", "img") >>

\* Three slides; slide 1 has notes, slide 2 has no relationships part, the
\* notes relationship of slide 3 names a part that is not in the container.
DeckB ==
    << Entry(SlideName(1), Bin(2), ZIP_DEFLATED, 2, 0, 1, "", ""),
       Entry(rel_path(1),
             RelsXml(<<Rel(NotesSlideType, "/", NotesTarget(1), "")>>),
             ZIP_DEFLATED, 2, 0, 1, "", ""),
       Entry(NotesName(1), OldNotes("h"), ZIP_STORED, 3, 0, 1, "", ""),
       Entry(SlideName(2), Bin(3), ZIP_DEFLATED, 2, 0, 1, "", ""),
       Entry(SlideName(3), Bin(4), ZIP_DEFLATED, 2, 0, 1, "", ""),
       Entry(rel_path(3),
             RelsXml(<<Rel(NotesSlideType, "/", NotesTarget(3), "")>>),
             ZIP_DEFLATED, 6, 0, 1, "", "") >>

Decks == {DeckA, DeckB}

\* PPTXHandler.get_slide_count(): the slides of the presentation.
get_slide_count(zfile) ==
    Cardinality({k \in 1..Len(zfile.entries) :
        /\ Len(zfile.entries[k].filename) = 3
        /\ zfile.entries[k].filename[2] = "slides"})

-----------------------------------------------------------------------------
(* Update requests as the caller sends them.  A JSON value is tagged with  *)
(* its type: sn is the slide number, txt the text ("none" is null or an    *)
(* absent key).                                                            *)

IntVal(n) == [t |-> "int", i |-> n]
StrForInt == [t |-> "str", i |-> 0]
StrVal(s) == [t |-> "str", s |-> s]
NoneVal == [t |-> "none", s |-> <<>>]
IntForStr == [t |-> "int", s |-> <<>>]
Request(sn, txt) == [sn |-> sn, txt |-> txt]

T1 == <<"x">>
T2 == <<"y", LF, "z">>

ValidRequests ==
    { Request(IntVal(1), StrVal(T1)), Request(IntVal(1), StrVal(T2)),
      Request(IntVal(2), StrVal(T1)), Request(IntVal(3), StrVal(T2)) }

InvalidRequests ==
    { Request(IntVal(0), StrVal(T1)), Request(StrForInt, StrVal(T1)),
      Request(IntVal(1), NoneVal), Request(IntVal(2), IntForStr) }

Requests == ValidRequests \cup InvalidRequests

Batches == UNION {[1..n -> Requests] : n \in 0..MaxBatch}

\* validate_slide_number raises
SlideNumberInvalid(slide_number, max_slides) ==
    \/ slide_number.t # "int"
    \/ slide_number.i < 1
    \/ slide_number.i > max_slides

\* one iteration of the loop of validate_batch_updates raises
UpdateInvalid(update, max_slides) ==
    \/ update.sn.t # "int"
    \/ update.txt.t # "str"
    \/ SlideNumberInvalid(update.sn, max_slides)

validate_batch_updates(updates, max_slides) ==
    IF updates = <<>> \/ \E k \in 1..Len(updates) : UpdateInvalid(updates[k], max_slides)
    THEN [ok |-> FALSE, validated |-> <<>>]
    ELSE [ok |-> TRUE, validated |-> updates]

\* one iteration of the "slides" loop of _iter_updates raises
ItemInvalid(item) ==
    \/ item.sn.t # "int"
    \/ item.txt.t \notin {"str", "none"}

_iter_updates(slides) ==
    IF \E k \in 1..Len(slides) : ItemInvalid(slides[k])
    THEN [ok |-> FALSE, updates |-> <<>>]
    ELSE [ok |-> TRUE,
          updates |-> [k \in 1..Len(slides) |->
                          <<slides[k].sn.i,
                            IF slides[k].txt.t = "none" THEN <<>> ELSE slides[k].txt.s>>]]

-----------------------------------------------------------------------------
(* The file system and one call *)

SrcPath == "deck.pptx"
TmpPath == "deck.k3j2.tmp.pptx"
TmpPath2 == "deck.q7mz.tmp.pptx"
DefaultOutPath == "deck.notes.pptx"
OtherOutPath == "out.pptx"
Paths == {SrcPath, TmpPath, TmpPath2, DefaultOutPath, OtherOutPath}

\* output_path argument: "" when the caller gives none
OutputPathArgs == {"", OtherOutPath, SrcPath}

VARIABLES
    fs,             \* path -> file
    arguments,      \* entry point, in_place, output_path, updates of the call
    original,       \* the container at SrcPath when the call began
    pc,             \* position of the call
    update_tuples,  \* (slide_no, notes_text) pairs handed to update_notes_safe
    pptx_out,       \* path update_notes_safe writes to
    zin,            \* infolist of the open source archive
    i,              \* index of the update being resolved
    notes_updates,  \* part name -> rewritten bytes
    j,              \* index of the entry being streamed
    exc,            \* exception raised by the call so far, "" if none
    fault,          \* step at which it was raised
    unlink_failed,  \* the cleanup's unlink raised and was swallowed
    result,         \* what the entry point gave its caller
    calls,          \* invocation -> state of a concurrent in-place update
    rewrite,        \* a notes part, a text, and what _set_notes_text made of them
    cache           \* an LRUCache and the last operation on it

vars == <<fs, arguments, original, pc, update_tuples, pptx_out, zin, i,
          notes_updates, j, exc, fault, unlink_failed, result, calls, rewrite, cache>>

\* what a single tool call leaves alone
aside == <<calls, rewrite, cache>>

NoResult == [returned |-> FALSE, success |-> FALSE, updated_slides |-> 0]

Init ==
    /\ \E deck \in Decks :
        /\ fs = [p \in Paths |-> IF p = SrcPath THEN ZipFile(deck, TRUE) ELSE Absent]
        /\ original = ZipFile(deck, TRUE)
    /\ \E e \in {"tool", "json"}, ip \in BOOLEAN, op \in OutputPathArgs, b \in Batches :
        /\ ip => op = ""
        \* the JSON payloads sampled: default output path, shorter batches
        /\ e = "json" => (op = "" /\ Len(b) < MaxBatch)
        /\ arguments = [entry |-> e, in_place |-> ip, output_path |-> op, updates |-> b]
    /\ pc = "call"
    /\ update_tuples = <<>>
    /\ pptx_out = ""
    /\ zin = <<>>
    /\ i = 0
    /\ notes_updates = <<>>
    /\ j = 0
    /\ exc = ""
    /\ fault = ""
    /\ unlink_failed = FALSE
    /\ result = NoResult
    /\ calls = <<>>
    /\ rewrite = <<>>
    /\ cache = <<>>

\* if not output_path: pptx_path.with_name(stem + ".notes.pptx") else Path(output_path)
OutputPath(output_path) == IF output_path = "" THEN DefaultOutPath ELSE output_path

\* update_notes_safe writing straight to the target
InPlaceOutDirect == SrcPath

\* the path update_notes_safe_in_place has update_notes_safe write to
InPlaceOut == TmpPath

AfterFailure == IF arguments.in_place THEN "finally" ELSE "return"

Raise(kind, step) ==
    /\ exc' = kind
    /\ fault' = step
    /\ pc' = AfterFailure

-----------------------------------------------------------------------------
(* Entry points *)

\* the call into the engine that both entry points make once validation passed
EnterEngine(tuples) ==
    /\ update_tuples' = tuples
    /\ IF arguments.in_place
       THEN pc' = "mkstemp" /\ pptx_out' = pptx_out
       ELSE pc' = "open_in" /\ pptx_out' = OutputPath(arguments.output_path)
    /\ UNCHANGED <<exc, fault, result>>

\* the exception leaves the entry point before anything was opened
Reject ==
    /\ exc' = "ValueError"
    /\ fault' = "validate"
    /\ pc' = "done"
    /\ UNCHANGED <<update_tuples, pptx_out, result>>

\* handle_update_notes_batch up to the try block
HandleUpdateNotesBatch ==
    /\ pc = "call"
    /\ arguments.entry = "tool"
    /\ LET max_slides == get_slide_count(fs[SrcPath])
           v == validate_batch_updates(arguments.updates, max_slides)
       IN IF v.ok
          THEN EnterEngine([k \in 1..Len(v.validated) |->
                              <<v.validated[k].sn.i, v.validated[k].txt.s>>])
          ELSE Reject
    /\ UNCHANGED <<aside, fs, arguments, original, zin, i, notes_updates, j, unlink_failed>>

\* a JSON payload parsed by _iter_updates and handed to the engine
ApplyJsonPayload ==
    /\ pc = "call"
    /\ arguments.entry = "json"
    /\ LET v == _iter_updates(arguments.updates)
       IN IF v.ok THEN EnterEngine(v.updates) ELSE Reject
    /\ UNCHANGED <<aside, fs, arguments, original, zin, i, notes_updates, j, unlink_failed>>

-----------------------------------------------------------------------------
(* update_notes_safe_in_place: temp file *)

MkTemp ==
    /\ pc = "mkstemp"
    /\ fs' = [fs EXCEPT ![TmpPath] = EmptyFile]
    /\ pptx_out' = InPlaceOut
    /\ pc' = "open_in"
    /\ UNCHANGED <<aside, arguments, original, update_tuples, zin, i, notes_updates, j, exc,
                   fault, unlink_failed, result>>

\* mkstemp raises: nothing was created, and the try block is not entered
MkTempFails ==
    /\ pc = "mkstemp"
    /\ exc' = "OSError"
    /\ fault' = "mkstemp"
    /\ pc' = "return"
    /\ UNCHANGED <<aside, fs, arguments, original, update_tuples, pptx_out, zin, i,
                   notes_updates, j, unlink_failed, result>>

-----------------------------------------------------------------------------
(* update_notes_safe *)

\* what the open source archive reads from
Source == fs[SrcPath]
SourceReadable(name) == Source.kind = "zip" /\ Source.complete /\ HasEntry(Source, name)

OpenIn ==
    /\ pc = "open_in"
    /\ zin' = infolist(Source)
    /\ i' = 1
    /\ notes_updates' = <<>>
    /\ pc' = "resolve"
    /\ UNCHANGED <<aside, fs, arguments, original, update_tuples, pptx_out, j, exc, fault,
                   unlink_failed, result>>

OpenInFails ==
    /\ pc = "open_in"
    /\ Raise("BadZipFile", "open_in")
    /\ UNCHANGED <<aside, fs, arguments, original, update_tuples, pptx_out, zin, i,
                   notes_updates, j, unlink_failed, result>>

slide_no == update_tuples[i][1]
notes_text == update_tuples[i][2]
notes_part == _notes_part_for_slide(Source, slide_no)

\* a map that keeps the first value stored under a key
PutFirst(map, key, value) ==
    [n \in (DOMAIN map) \cup {key} |-> IF n \in DOMAIN map THEN map[n] ELSE value]

Put(map, key, value) ==
    [n \in (DOMAIN map) \cup {key} |-> IF n = key THEN value ELSE map[n]]

\* a request without notes part treated as an error
ResolveMissRaises ==
    /\ pc = "resolve"
    /\ i <= Len(update_tuples)
    /\ notes_part = None
    /\ Raise("KeyError", "resolve")
    /\ UNCHANGED <<aside, fs, arguments, original, update_tuples, pptx_out, zin, i,
                   notes_updates, j, unlink_failed, result>>

\* if not notes_part: continue
ResolveMiss ==
    /\ pc = "resolve"
    /\ i <= Len(update_tuples)
    /\ notes_part = None
    /\ i' = i + 1
    /\ UNCHANGED <<aside, fs, arguments, original, pc, update_tuples, pptx_out, zin,
                   notes_updates, j, exc, fault, unlink_failed, result>>

\* zin.read(notes_part) raises KeyError: the part is not in the archive
ResolveDangling ==
    /\ pc = "resolve"
    /\ i <= Len(update_tuples)
    /\ notes_part # None
    /\ ~HasEntry(Source, notes_part)
    /\ Raise("KeyError", "resolve")
    /\ UNCHANGED <<aside, fs, arguments, original, update_tuples, pptx_out, zin, i,
                   notes_updates, j, unlink_failed, result>>

ResolveRewrite ==
    /\ pc = "resolve"
    /\ i <= Len(update_tuples)
    /\ notes_part # None
    /\ HasEntry(Source, notes_part)
    /\ notes_updates' =
          Put(notes_updates, notes_part, _set_notes_text(read(Source, notes_part), notes_text))
    /\ i' = i + 1
    /\ UNCHANGED <<aside, fs, arguments, original, pc, update_tuples, pptx_out, zin, j, exc,
                   fault, unlink_failed, result>>

\* reading the part fails at the I/O level
ResolveReadFails ==
    /\ pc = "resolve"
    /\ i <= Len(update_tuples)
    /\ notes_part # None
    /\ HasEntry(Source, notes_part)
    /\ Raise("OSError", "resolve")
    /\ UNCHANGED <<aside, fs, arguments, original, update_tuples, pptx_out, zin, i,
                   notes_updates, j, unlink_failed, result>>

\* the loop left before the last request
ResolveDoneEarly ==
    /\ pc = "resolve"
    /\ pc' = "open_out"
    /\ UNCHANGED <<aside, fs, arguments, original, update_tuples, pptx_out, zin, i,
                   notes_updates, j, exc, fault, unlink_failed, result>>

ResolveDone ==
    /\ pc = "resolve"
    /\ i > Len(update_tuples)
    /\ pc' = "open_out"
    /\ UNCHANGED <<aside, fs, arguments, original, update_tuples, pptx_out, zin, i,
                   notes_updates, j, exc, fault, unlink_failed, result>>

\* zipfile.ZipFile(pptx_out, "w"): the file is created, or truncated if it exists
OpenOut ==
    /\ pc = "open_out"
    /\ fs' = [fs EXCEPT ![pptx_out] = ZipFile(<<>>, FALSE)]
    /\ j' = 1
    /\ pc' = "stream"
    /\ UNCHANGED <<aside, arguments, original, update_tuples, pptx_out, zin, i, notes_updates,
                   exc, fault, unlink_failed, result>>

OpenOutFails ==
    /\ pc = "open_out"
    /\ Raise("OSError", "open_out")
    /\ UNCHANGED <<aside, fs, arguments, original, update_tuples, pptx_out, zin, i,
                   notes_updates, j, unlink_failed, result>>

\* substitution decided by the directory of the entry, not by its name
OutDataAnyNotes(item, updates_map, src) ==
    IF DOMAIN updates_map # {} /\ Len(item.filename) = 3 /\ item.filename[2] = "notesSlides"
    THEN updates_map[CHOOSE n \in DOMAIN updates_map : TRUE]
    ELSE read(src, item.filename)

\* the bytes written for an entry of the source
OutData(item, updates_map, src) ==
    IF item.filename \in DOMAIN updates_map
    THEN updates_map[item.filename]
    ELSE read(src, item.filename)

\* the ZipInfo without the copy of the extra field
ZipInfoNoExtra(item) ==
    [filename |-> item.filename, date_time |-> item.date_time,
     compress_type |-> ZIP_DEFLATED, external_attr |-> item.external_attr,
     comment |-> item.comment, extra |-> "",
     internal_attr |-> item.internal_attr, create_system |-> item.create_system]

\* the ZipInfo built for an entry of the source
ZipInfoFor(item) ==
    [filename |-> item.filename, date_time |-> item.date_time,
     compress_type |-> ZIP_DEFLATED, external_attr |-> item.external_attr,
     comment |-> item.comment, extra |-> item.extra,
     internal_attr |-> item.internal_attr, create_system |-> item.create_system]

\* zout.writestr(zi, data)
writestr(zfile, zi, data) ==
    [zfile EXCEPT !.entries = Append(@,
        [filename |-> zi.filename, data |-> data, compress_type |-> zi.compress_type,
         date_time |-> zi.date_time, external_attr |-> zi.external_attr,
         internal_attr |-> zi.internal_attr, extra |-> zi.extra, comment |-> zi.comment,
         create_system |-> zi.create_system])]

StreamEntry ==
    /\ pc = "stream"
    /\ j <= Len(zin)
    /\ SourceReadable(zin[j].filename)
    /\ fs' = [fs EXCEPT ![pptx_out] =
                 writestr(@, ZipInfoFor(zin[j]), OutData(zin[j], notes_updates, Source))]
    /\ j' = j + 1
    /\ UNCHANGED <<aside, arguments, original, pc, update_tuples, pptx_out, zin, i,
                   notes_updates, exc, fault, unlink_failed, result>>

\* zin.read(item.filename) finds no entry where the directory it loaded said:
\* the source file is no longer the archive that was opened.  Leaving the
\* with block closes the output, which so far holds the entries before j.
StreamSourceGone ==
    /\ pc = "stream"
    /\ j <= Len(zin)
    /\ ~SourceReadable(zin[j].filename)
    /\ fs' = [fs EXCEPT ![pptx_out].complete = TRUE]
    /\ Raise("BadZipFile", "stream")
    /\ UNCHANGED <<aside, arguments, original, update_tuples, pptx_out, zin, i, notes_updates,
                   j, unlink_failed, result>>

\* reading or writing the entry fails at the I/O level; closing the output on
\* the way out writes its directory or fails as well
StreamFails ==
    /\ pc = "stream"
    /\ j <= Len(zin)
    /\ SourceReadable(zin[j].filename)
    /\ \E closed \in BOOLEAN : fs' = [fs EXCEPT ![pptx_out].complete = closed]
    /\ Raise("OSError", "stream")
    /\ UNCHANGED <<aside, arguments, original, update_tuples, pptx_out, zin, i, notes_updates,
                   j, unlink_failed, result>>

\* end of the with block: the output's central directory is written
CloseOut ==
    /\ pc = "stream"
    /\ j > Len(zin)
    /\ fs' = [fs EXCEPT ![pptx_out].complete = TRUE]
    /\ pc' = IF arguments.in_place THEN "rename" ELSE "return"
    /\ UNCHANGED <<aside, arguments, original, update_tuples, pptx_out, zin, i, notes_updates,
                   j, exc, fault, unlink_failed, result>>

CloseOutFails ==
    /\ pc = "stream"
    /\ j > Len(zin)
    /\ Raise("OSError", "close_out")
    /\ UNCHANGED <<aside, fs, arguments, original, update_tuples, pptx_out, zin, i,
                   notes_updates, j, unlink_failed, result>>

-----------------------------------------------------------------------------
(* update_notes_safe_in_place: commit and cleanup *)

\* os.replace(tmp_file, pptx_in)
Rename ==
    /\ pc = "rename"
    /\ fs' = [fs EXCEPT ![SrcPath] = fs[TmpPath], ![TmpPath] = Absent]
    /\ pc' = "finally"
    /\ UNCHANGED <<aside, arguments, original, update_tuples, pptx_out, zin, i, notes_updates,
                   j, exc, fault, unlink_failed, result>>

RenameFails ==
    /\ pc = "rename"
    /\ Raise("OSError", "rename")
    /\ UNCHANGED <<aside, fs, arguments, original, update_tuples, pptx_out, zin, i,
                   notes_updates, j, unlink_failed, result>>

\* a cleanup that leaves the temp file where it is
CleanupSkipped ==
    /\ pc = "finally"
    /\ pc' = "return"
    /\ UNCHANGED <<aside, fs, arguments, original, update_tuples, pptx_out, zin, i,
                   notes_updates, j, exc, fault, unlink_failed, result>>

\* finally: if tmp_file.exists(): try unlink, swallow its failure
Cleanup ==
    /\ pc = "finally"
    /\ IF fs[TmpPath].kind # "absent"
       THEN \/ fs' = [fs EXCEPT ![TmpPath] = Absent] /\ unlink_failed' = unlink_failed
            \/ fs' = fs /\ unlink_failed' = TRUE
       ELSE fs' = fs /\ unlink_failed' = unlink_failed
    /\ pc' = "return"
    /\ UNCHANGED <<aside, arguments, original, update_tuples, pptx_out, zin, i, notes_updates,
                   j, exc, fault, result>>

\* the engine call is over; the tool handler turns its outcome into a response
Return ==
    /\ pc = "return"
    /\ result' =
          IF arguments.entry = "tool"
          THEN IF exc = ""
               THEN [returned |-> TRUE, success |-> TRUE,
                     updated_slides |-> Len(update_tuples)]
               ELSE [returned |-> TRUE, success |-> FALSE, updated_slides |-> 0]
          ELSE [returned |-> exc = "", success |-> exc = "", updated_slides |-> 0]
    /\ pc' = "done"
    /\ UNCHANGED <<aside, fs, arguments, original, update_tuples, pptx_out, zin, i,
                   notes_updates, j, exc, fault, unlink_failed>>

Next ==
    \/ HandleUpdateNotesBatch
    \/ ApplyJsonPayload
    \/ MkTemp
    \/ MkTempFails
    \/ OpenIn
    \/ OpenInFails
    \/ ResolveMiss
    \/ ResolveDangling
    \/ ResolveRewrite
    \/ ResolveReadFails
    \/ ResolveDone
    \/ OpenOut
    \/ OpenOutFails
    \/ StreamEntry
    \/ StreamSourceGone
    \/ StreamFails
    \/ CloseOut
    \/ CloseOutFails
    \/ Rename
    \/ RenameFails
    \/ Cleanup
    \/ Return

Spec == Init /\ [][Next]_vars

-----------------------------------------------------------------------------
(* Properties *)

\* the part a request resolves to in the container the call began with
PartOf(k) == _notes_part_for_slide(original, update_tuples[k][1])
IsMiss(k) == PartOf(k) = None
RequestsFor(name) == {k \in 1..Len(update_tuples) : PartOf(k) = name}
ResolvedParts == {PartOf(k) : k \in 1..Len(update_tuples)} \ {None}
LastRequestFor(name) == CHOOSE k \in RequestsFor(name) : \A m \in RequestsFor(name) : m <= k

\* payload an entry of the new container must carry
ExpectedData(name) ==
    IF name \in ResolvedParts
    THEN _set_notes_text(read(original, name), update_tuples[LastRequestFor(name)][2])
    ELSE read(original, name)

\* f is the complete new container: all entries of the original, each with
\* the payload the batch gives it
IsCompleteNew(f) ==
    /\ f.kind = "zip"
    /\ f.complete
    /\ namelist(f) = namelist(original)
    /\ \A k \in 1..Len(f.entries) : f.entries[k].data = ExpectedData(f.entries[k].filename)

FinalPath == IF arguments.in_place THEN SrcPath ELSE pptx_out
Succeeded == pc = "done" /\ exc = ""
FailSteps == {"open_in", "resolve", "open_out", "stream", "close_out", "rename"}

\* C1: during and after an in-place update, whatever step fails, the file at
\* the target path is the original container or the complete new container
\* with every resolved request rewritten.
C1_TargetOldOrNew ==
    arguments.in_place => (fs[SrcPath] = original \/ IsCompleteNew(fs[SrcPath]))

C1_Witness ==
    /\ arguments.in_place
    /\ pc = "done"
    /\ Cardinality(ResolvedParts) >= 2
    /\ fs[SrcPath] # original
    /\ IsCompleteNew(fs[SrcPath])

\* C2 as stated: when a step of an in-place update fails between the creation
\* of the temp file and the rename, the caller gets the error, the target is
\* unchanged and the temp file is gone when the call is over.
C2_TempAlwaysRemoved ==
    (pc = "done" /\ arguments.in_place /\ fault \in FailSteps) =>
        /\ exc # ""
        /\ ~result.success
        /\ fs[SrcPath] = original
        /\ fs[TmpPath].kind = "absent"

\* C2 amended: the same, except that the temp file may remain when its
\* removal in the cleanup failed too (that failure is swallowed).
C2_TempRemovedUnlessUnlinkFails ==
    (pc = "done" /\ arguments.in_place /\ fault \in FailSteps) =>
        /\ exc # ""
        /\ ~result.success
        /\ fs[SrcPath] = original
        /\ (fs[TmpPath].kind = "absent" \/ unlink_failed)

C2_Witness ==
    /\ pc = "done"
    /\ arguments.in_place
    /\ fault = "rename"
    /\ ~unlink_failed
    /\ fs[TmpPath].kind = "absent"
    /\ fs[SrcPath] = original

\* C3: in every file the call writes, an entry whose name is not the resolved
\* notes part of a request carries the payload of the same-named source entry.
C3_OtherEntriesIdentical ==
    LET resolved == ResolvedParts IN
    \A p \in Paths : \A k \in 1..Len(fs[p].entries) :
        fs[p].entries[k].filename \notin resolved =>
            /\ HasEntry(original, fs[p].entries[k].filename)
            /\ fs[p].entries[k].data = read(original, fs[p].entries[k].filename)

C3_Witness ==
    /\ Succeeded
    /\ ~arguments.in_place
    /\ ResolvedParts # {}
    /\ \E k \in 1..Len(fs[pptx_out].entries) :
          /\ fs[pptx_out].entries[k].filename \in ResolvedParts
          /\ fs[pptx_out].entries[k].data # read(original, fs[pptx_out].entries[k].filename)
    /\ \E k \in 1..Len(fs[pptx_out].entries) :
          /\ fs[pptx_out].entries[k].filename \notin ResolvedParts
          /\ Len(fs[pptx_out].entries[k].filename) = 3
          /\ fs[pptx_out].entries[k].filename[2] = "notesSlides"

\* C4: the container a successful update leaves has the entry names of the
\* source in the source's order; a slide without notes part gets none.
C4_SameNamesSameOrder ==
    Succeeded => namelist(fs[FinalPath]) = namelist(original)

C4_Witness ==
    /\ Succeeded
    /\ \E k \in 1..Len(update_tuples) : IsMiss(k)
    /\ \E k \in 1..Len(update_tuples) : ~IsMiss(k)
    /\ fs[FinalPath] # original

\* C5: every entry of the container a successful update leaves has the
\* compression method of the same-named source entry.
C5_CompressionPreserved ==
    Succeeded =>
        \A k \in 1..Len(fs[FinalPath].entries) :
            fs[FinalPath].entries[k].compress_type = original.entries[k].compress_type

SameMetadata(e, o) ==
    /\ e.date_time = o.date_time
    /\ e.external_attr = o.external_attr
    /\ e.internal_attr = o.internal_attr
    /\ e.extra = o.extra
    /\ e.comment = o.comment

C7_MissIsSkipped ==
    /\ (fault = "resolve" /\ exc # "OSError") => ~IsMiss(i)
    /\ Succeeded => IsCompleteNew(fs[FinalPath])

C7_Witness ==
    /\ Succeeded
    /\ Len(update_tuples) = 3
    /\ IsMiss(2)
    /\ ~IsMiss(1)
    /\ ~IsMiss(3)
    /\ PartOf(1) # PartOf(3)
    /\ IsCompleteNew(fs[FinalPath])

\* requests that resolved to a notes part and were rewritten
AppliedCount == Cardinality({k \in 1..Len(update_tuples) : ~IsMiss(k)})

\* C8: the count a successful batch update reports is the number of requests
\* that resolved and were rewritten.
C8_ReportsAppliedCount ==
    (pc = "done" /\ arguments.entry = "tool" /\ result.success) =>
        result.updated_slides = AppliedCount

\* a request without an integer slide number >= 1 or without a string text
Violating(r) == r.sn.t # "int" \/ r.sn.i < 1 \/ r.txt.t # "str"

\* C9: a batch with a violating request is rejected before anything is
\* resolved or written: the call ends with the validation error, no temp
\* file, no output file, target unchanged.
C9_InvalidBatchRejected ==
    (\E k \in 1..Len(arguments.updates) : Violating(arguments.updates[k])) =>
        /\ pc \in {"call", "done"}
        /\ pc = "done" => exc = "ValueError"
        /\ zin = <<>>
        /\ fs = [p \in Paths |-> IF p = SrcPath THEN original ELSE Absent]

\* C10: in new-file mode the source file is the same before, during and
\* after the call, whatever the output path.
C10_SourceUntouched ==
    ~arguments.in_place => fs[SrcPath] = original

-----------------------------------------------------------------------------
(* Failures of the container *)

\* the call ended on an error of the container: the source could not be
\* opened as a zip, or an entry could not be read or written while streaming
ContainerError == pc = "done" /\ fault \in {"open_in", "stream"}

\* C11: after a container error (unreadable source, or a failure midway
\* through streaming) no partially written output is left at the path the
\* engine wrote to: the temp path in in-place mode, the output path in
\* new-file mode.  A temp file whose unlink failed is left aside.
C11_NoPartialOutputLeft ==
    (ContainerError /\ pptx_out # SrcPath /\ ~unlink_failed)
        => fs[pptx_out].kind = "absent"

-----------------------------------------------------------------------------
(* Concurrent in-place updates of one target.  Each invocation runs        *)
(* update_notes_safe_in_place in its own thread; the file system is all    *)
(* they share.  An open archive keeps reading the file it opened, whatever *)
(* is renamed onto its path afterwards.                                    *)

Invocations == {1, 2}

\* names mkstemp may hand out
TmpNames == {TmpPath, TmpPath2}

ConcurrentBatches ==
    { << <<1, T1>> >>, << <<2, T2>> >>, << <<1, T2>>, <<3, T1>>, <<2, T1>> >> }

\* everything of a single tool call, left alone by the concurrent invocations
engine == <<arguments, pc, update_tuples, pptx_out, zin, i, notes_updates, j, exc,
            fault, unlink_failed, result>>

\* the loop with each rewrite made from the bytes of a part rewritten before
RECURSIVE ResolveFromCarrying(_, _, _, _)
ResolveFromCarrying(src, tuples, k, map) ==
    IF k > Len(tuples)
    THEN [exc |-> "", notes_updates |-> map]
    ELSE LET part == _notes_part_for_slide(src, tuples[k][1])
         IN IF part = None
            THEN ResolveFromCarrying(src, tuples, k + 1, map)
            ELSE IF ~HasEntry(src, part)
                 THEN [exc |-> "KeyError", notes_updates |-> map]
                 ELSE ResolveFromCarrying(src, tuples, k + 1,
                        Put(map, part,
                            _set_notes_text(IF DOMAIN map = {} THEN read(src, part)
                                            ELSE map[CHOOSE n \in DOMAIN map : TRUE],
                                            tuples[k][2])))

\* the loop "for slide_no, notes_text in updates" from request k on
RECURSIVE ResolveFrom(_, _, _, _)
ResolveFrom(src, tuples, k, map) ==
    IF k > Len(tuples)
    THEN [exc |-> "", notes_updates |-> map]
    ELSE LET part == _notes_part_for_slide(src, tuples[k][1])
         IN IF part = None
            THEN ResolveFrom(src, tuples, k + 1, map)
            ELSE IF ~HasEntry(src, part)
                 THEN [exc |-> "KeyError", notes_updates |-> map]
                 ELSE ResolveFrom(src, tuples, k + 1,
                        Put(map, part, _set_notes_text(read(src, part), tuples[k][2])))

\* the loop "for item in zin.infolist()" from entry k on
RECURSIVE StreamFrom(_, _, _, _)
StreamFrom(src, map, k, zout) ==
    IF k > Len(infolist(src))
    THEN zout
    ELSE StreamFrom(src, map, k + 1,
            writestr(zout, ZipInfoFor(infolist(src)[k]), OutData(infolist(src)[k], map, src)))

ConcurrentInit ==
    /\ fs = [p \in Paths |-> IF p = SrcPath THEN ZipFile(DeckA, TRUE) ELSE Absent]
    /\ original = ZipFile(DeckA, TRUE)
    /\ calls \in [Invocations ->
                    {[pc |-> "mkstemp", updates |-> b, tmp_file |-> "", zin |-> Absent,
                      notes_updates |-> <<>>, exc |-> "", renamed |-> 0]
                        : b \in ConcurrentBatches}]
    /\ arguments = <<>>
    /\ pc = ""
    /\ update_tuples = <<>>
    /\ pptx_out = ""
    /\ zin = <<>>
    /\ i = 0
    /\ notes_updates = <<>>
    /\ j = 0
    /\ exc = ""
    /\ fault = ""
    /\ unlink_failed = FALSE
    /\ result = NoResult
    /\ rewrite = <<>>
    /\ cache = <<>>

\* tempfile.mkstemp: a file that did not exist is created under a fresh name
FreeTmpNames(p) == {n \in TmpNames : fs[n].kind = "absent"}

CallMkTemp(p) ==
    /\ calls[p].pc = "mkstemp"
    /\ \E n \in FreeTmpNames(p) :
        /\ fs' = [fs EXCEPT ![n] = EmptyFile]
        /\ calls' = [calls EXCEPT ![p].tmp_file = n, ![p].pc = "open_in"]
    /\ UNCHANGED <<original, engine, rewrite, cache>>

\* zipfile.ZipFile(pptx_in, "r"): the archive now at the target path
CallOpenIn(p) ==
    /\ calls[p].pc = "open_in"
    /\ calls' = [calls EXCEPT ![p].zin = fs[SrcPath], ![p].pc = "resolve"]
    /\ UNCHANGED <<fs, original, engine, rewrite, cache>>

CallResolve(p) ==
    /\ calls[p].pc = "resolve"
    /\ LET r == ResolveFrom(calls[p].zin, calls[p].updates, 1, <<>>)
       IN calls' = [calls EXCEPT ![p].notes_updates = r.notes_updates,
                                 ![p].exc = r.exc,
                                 ![p].pc = IF r.exc = "" THEN "open_out" ELSE "finally"]
    /\ UNCHANGED <<fs, original, engine, rewrite, cache>>

\* zipfile.ZipFile(pptx_out, "w") on the invocation's temp file
CallOpenOut(p) ==
    /\ calls[p].pc = "open_out"
    /\ fs' = [fs EXCEPT ![calls[p].tmp_file] = ZipFile(<<>>, FALSE)]
    /\ calls' = [calls EXCEPT ![p].pc = "stream"]
    /\ UNCHANGED <<original, engine, rewrite, cache>>

\* the entries read from whatever is at the target path by now
CallStreamFromPath(p) ==
    /\ calls[p].pc = "stream"
    /\ fs' = [fs EXCEPT ![calls[p].tmp_file] =
                [StreamFrom(fs[SrcPath], calls[p].notes_updates, 1,
                            ZipFile(fs[calls[p].tmp_file].entries, FALSE))
                   EXCEPT !.complete = TRUE]]
    /\ calls' = [calls EXCEPT ![p].pc = "rename"]
    /\ UNCHANGED <<original, engine, rewrite, cache>>

\* every entry is written after what the file holds, then the with block ends
CallStream(p) ==
    /\ calls[p].pc = "stream"
    /\ fs' = [fs EXCEPT ![calls[p].tmp_file] =
                [StreamFrom(calls[p].zin, calls[p].notes_updates, 1,
                            ZipFile(fs[calls[p].tmp_file].entries, FALSE))
                   EXCEPT !.complete = TRUE]]
    /\ calls' = [calls EXCEPT ![p].pc = "rename"]
    /\ UNCHANGED <<original, engine, rewrite, cache>>

\* an entry cannot be read or written
CallStreamFails(p) ==
    /\ calls[p].pc = "stream"
    /\ calls' = [calls EXCEPT ![p].exc = "OSError", ![p].pc = "finally"]
    /\ UNCHANGED <<fs, original, engine, rewrite, cache>>

\* how many invocations have renamed so far
Renames == Cardinality({q \in Invocations : calls[q].renamed > 0})

\* os.replace(tmp_file, pptx_in); raises when the temp file is gone
CallRename(p) ==
    /\ calls[p].pc = "rename"
    /\ IF fs[calls[p].tmp_file].kind = "absent"
       THEN /\ calls' = [calls EXCEPT ![p].exc = "FileNotFoundError", ![p].pc = "finally"]
            /\ fs' = fs
       ELSE /\ fs' = [fs EXCEPT ![SrcPath] = fs[calls[p].tmp_file],
                                ![calls[p].tmp_file] = Absent]
            /\ calls' = [calls EXCEPT ![p].renamed = Renames + 1, ![p].pc = "finally"]
    /\ UNCHANGED <<original, engine, rewrite, cache>>

\* the target is held open elsewhere and the platform refuses to replace it
CallRenameFails(p) ==
    /\ calls[p].pc = "rename"
    /\ calls' = [calls EXCEPT ![p].exc = "PermissionError", ![p].pc = "finally"]
    /\ UNCHANGED <<fs, original, engine, rewrite, cache>>

\* finally: if tmp_file.exists(): tmp_file.unlink()
CallCleanup(p) ==
    /\ calls[p].pc = "finally"
    /\ fs' = [fs EXCEPT ![calls[p].tmp_file] = Absent]
    /\ calls' = [calls EXCEPT ![p].pc = "done"]
    /\ UNCHANGED <<original, engine, rewrite, cache>>

ConcurrentNext ==
    \E p \in Invocations :
        \/ CallMkTemp(p)
        \/ CallOpenIn(p)
        \/ CallResolve(p)
        \/ CallOpenOut(p)
        \/ CallStream(p)
        \/ CallStreamFails(p)
        \/ CallRename(p)
        \/ CallRenameFails(p)
        \/ CallCleanup(p)

SpecConcurrent == ConcurrentInit /\ [][ConcurrentNext]_vars

\* the parts the requests of a batch resolve to in a container
PartsOf(src, tuples) ==
    {_notes_part_for_slide(src, tuples[k][1]) : k \in 1..Len(tuples)} \ {None}

\* the text of the last request of the batch that resolves to the part
LastTextFor(src, tuples, name) ==
    LET ks == {k \in 1..Len(tuples) : _notes_part_for_slide(src, tuples[k][1]) = name}
    IN tuples[CHOOSE k \in ks : \A m \in ks : m <= k][2]

\* the complete output of a batch applied to a container: its entries in
\* their order, the resolved notes parts rewritten, all deflated
NewContainer(src, tuples) ==
    ZipFile([k \in 1..Len(src.entries) |->
                [src.entries[k] EXCEPT
                    !.compress_type = ZIP_DEFLATED,
                    !.data = IF src.entries[k].filename \in PartsOf(src, tuples)
                             THEN _set_notes_text(@,
                                    LastTextFor(src, tuples, src.entries[k].filename))
                             ELSE @]],
            TRUE)

BothCompleted == \A p \in Invocations : calls[p].pc = "done" /\ calls[p].exc = ""
LastRenamer == CHOOSE p \in Invocations : calls[p].renamed = Cardinality(Invocations)

\* C12: when two concurrent in-place updates of one target both complete,
\* the target holds exactly the output of the invocation that renamed last:
\* that invocation's batch applied to the container it had opened.
C12_LastRenameWins ==
    BothCompleted =>
        fs[SrcPath] = NewContainer(calls[LastRenamer].zin, calls[LastRenamer].updates)

\* both completed, the later one had opened the original container, and a
\* part only the earlier one rewrote is back to its original content
C12_Witness ==
    /\ BothCompleted
    /\ calls[LastRenamer].zin = original
    /\ \E p \in Invocations \ {LastRenamer} :
         \E name \in PartsOf(original, calls[p].updates) :
            /\ name \notin PartsOf(original, calls[LastRenamer].updates)
            /\ read(fs[SrcPath], name) = read(original, name)
            /\ read(fs[SrcPath], name) # read(NewContainer(original, calls[p].updates), name)

-----------------------------------------------------------------------------
(* Update, then read_notes_batch.  The read goes through the presentation  *)
(* object: its slides are the slide parts in the order presentation.xml    *)
(* lists them, whatever the parts are called.                              *)

PresentationName == <<"ppt", "presentation.xml">>
PresentationXml(sldIdLst) == [kind |-> "presentation", sldIdLst |-> sldIdLst]

\* Two slides, both with notes; the presentation shows the part slide2.xml
\* first and slide1.xml second, as after the two slides were swapped.
DeckC ==
    << Entry(PresentationName, PresentationXml(<<SlideName(2), SlideName(1)>>),
             ZIP_DEFLATED, 1, 0, 1, "", ""),
       Entry(SlideName(1), Bin(2), ZIP_DEFLATED, 2, 0, 1, "", ""),
       Entry(rel_path(1),
             RelsXml(<<LayoutRel, Rel(NotesSlideType, "/", NotesTarget(1), "")>>),
             ZIP_DEFLATED, 2, 0, 1, "", ""),
       Entry(NotesName(1), OldNotes("h"), ZIP_DEFLATED, 3, 0, 1, "", ""),
       Entry(SlideName(2), Bin(3), ZIP_DEFLATED, 2, 0, 1, "", ""),
       Entry(rel_path(2),
             RelsXml(<<LayoutRel, Rel(NotesSlideType, "/", NotesTarget(2), "")>>),
             ZIP_DEFLATED, 2, 0, 1, "", ""),
       Entry(NotesName(2), OldNotes("w"), ZIP_DEFLATED, 4, 0, 1, "", "") >>

\* handler.presentation.slides: the slide parts in presentation order
slides(zfile) == read(zfile, PresentationName).sldIdLst

\* the notes part related to a slide part, None when slide.has_notes_slide is false
notes_slide(zfile, slide_part) ==
    LET n == CHOOSE n \in 1..3 : SlideName(n) = slide_part
        rels == IF HasEntry(zfile, rel_path(n))
                THEN Relationships(read(zfile, rel_path(n)))
                ELSE <<>>
        hits == {k \in 1..Len(rels) : rels[k].Type = NotesSlideType}
    IN IF hits = {} THEN None
       ELSE <<"ppt">> \o Tail(rels[CHOOSE k \in hits : \A m \in hits : k <= m].Target.segs)

\* "\n".join of the texts of the paragraphs
RECURSIVE JoinParagraphs(_)
JoinParagraphs(kids) ==
    IF kids = <<>> THEN <<>>
    ELSE IF kids[1].tag # "p" THEN JoinParagraphs(Tail(kids))
         ELSE IF \E k \in 2..Len(kids) : kids[k].tag = "p"
              THEN kids[1].t \o <<LF>> \o JoinParagraphs(Tail(kids))
              ELSE kids[1].t

\* notes_slide.notes_text_frame.text: the text of the body placeholder; ""
\* when there is none (the AttributeError is swallowed)
notes_text_frame_text(notes_xml) ==
    LET sp == FirstBodyShape(notes_xml.shapes)
    IN IF sp = 0 \/ notes_xml.shapes[sp].tx # "p" THEN <<>>
       ELSE JoinParagraphs(notes_xml.shapes[sp].kids)

\* the notes read_notes_batch reports for slide number slide_num
ReadNotes(zfile, slide_num) ==
    LET part == notes_slide(zfile, slides(zfile)[slide_num])
    IN IF part = None THEN <<>> ELSE notes_text_frame_text(read(zfile, part))

\* handle_read_notes_batch without slide_numbers: every slide, after the update returned
HandleReadNotesBatch ==
    /\ pc = "done"
    /\ exc = ""
    /\ result' = [returned |-> TRUE, success |-> TRUE,
                  total_slides |-> get_slide_count(fs[SrcPath]),
                  slides |-> [n \in 1..get_slide_count(fs[SrcPath]) |->
                                 [slide_number |-> n, notes |-> ReadNotes(fs[SrcPath], n)]]]
    /\ pc' = "read"
    /\ UNCHANGED <<aside, fs, arguments, original, update_tuples, pptx_out, zin, i,
                   notes_updates, j, exc, fault, unlink_failed>>

RoundTripInit ==
    /\ fs = [p \in Paths |-> IF p = SrcPath THEN ZipFile(DeckC, TRUE) ELSE Absent]
    /\ original = ZipFile(DeckC, TRUE)
    /\ \E b \in Batches :
        arguments = [entry |-> "tool", in_place |-> TRUE, output_path |-> "", updates |-> b]
    /\ pc = "call"
    /\ update_tuples = <<>>
    /\ pptx_out = ""
    /\ zin = <<>>
    /\ i = 0
    /\ notes_updates = <<>>
    /\ j = 0
    /\ exc = ""
    /\ fault = ""
    /\ unlink_failed = FALSE
    /\ result = NoResult
    /\ calls = <<>>
    /\ rewrite = <<>>
    /\ cache = <<>>

\* an update that meets no failure, then the read
RoundTripNext ==
    \/ HandleUpdateNotesBatch
    \/ MkTemp
    \/ OpenIn
    \/ ResolveRewrite
    \/ ResolveDone
    \/ OpenOut
    \/ StreamEntry
    \/ CloseOut
    \/ Rename
    \/ Cleanup
    \/ Return
    \/ HandleReadNotesBatch

SpecRoundTrip == RoundTripInit /\ [][RoundTripNext]_vars

\* t occurs in s
Contains(s, t) == \E a \in 0..(Len(s) - Len(t)) : SubSeq(s, a + 1, a + Len(t)) = t

\* the request is the last of the batch for its slide number
LastForSlide(k) ==
    \A m \in (k + 1)..Len(update_tuples) : update_tuples[m][1] # update_tuples[k][1]

\* C13: after a successful batch update, reading slide N returns text that
\* contains T, for every request (N, T) that is the last for N and whose
\* slide, the N-th of the presentation, has a notes part.
C13_ReadReturnsWrittenText ==
    pc = "read" =>
        \A k \in 1..Len(update_tuples) :
            (/\ LastForSlide(k)
             /\ notes_slide(original, slides(original)[update_tuples[k][1]]) # None)
                => Contains(result.slides[update_tuples[k][1]].notes, update_tuples[k][2])

-----------------------------------------------------------------------------
(* The rewriter on its own: _set_notes_text applied to a notes part and a  *)
(* text, then to its own output and the same text.                         *)

\* a marker in the wrong case
LowerMarker == "- short version:"

Alphabet == {"x", " ", TAB, LF, CR, CTL, ShortMarker, OriginalMarker, LowerMarker}
Texts == UNION {[1..n -> Alphabet] : n \in 0..MaxTextLen}

\* Notes parts: the usual one; one whose only text shape is no placeholder;
\* one without text; a body placeholder without text body next to a text
\* shape; one already rewritten; a titled shape that no xpath selects; two
\* body placeholders after a text shape; text shapes after a titled shape.
NotesDocs ==
    { OldNotes("h"),
      NotesXml(FALSE, << Shape("", "a", <<Para(TRUE, <<"q">>), Other("bodyPr"),
                                          Para(FALSE, <<"r">>)>>) >>),
      NotesXml(FALSE, << Shape("sldImg", "", <<>>) >>),
      NotesXml(FALSE, << Shape("body", "", <<>>),
                         Shape("", "a", <<Para(FALSE, <<"q">>)>>) >>),
      NotesXml(TRUE, << Shape("body", "p", <<Other("bodyPr")>>) >>),
      NotesXml(FALSE, << Shape("title", "p", <<Para(FALSE, <<"q">>)>>) >>),
      NotesXml(FALSE, << Shape("", "a", <<Para(FALSE, <<"q">>)>>),
                         Shape("body", "p", <<Other("bodyPr"), Para(FALSE, <<"h">>)>>),
                         Shape("body", "p", <<Para(FALSE, <<"r">>)>>) >>),
      NotesXml(FALSE, << Shape("title", "p", <<Para(FALSE, <<"q">>)>>),
                         Shape("", "a", <<Other("bodyPr"), Para(FALSE, <<"h">>)>>),
                         Shape("", "a", <<Para(FALSE, <<"r">>)>>) >>) }

\* no tool call is under way
EngineIdle ==
    /\ fs = [p \in Paths |-> Absent]
    /\ original = Absent
    /\ arguments = <<>>
    /\ pc = ""
    /\ update_tuples = <<>>
    /\ pptx_out = ""
    /\ zin = <<>>
    /\ i = 0
    /\ notes_updates = <<>>
    /\ j = 0
    /\ exc = ""
    /\ fault = ""
    /\ unlink_failed = FALSE
    /\ result = NoResult

RewriteInit ==
    /\ EngineIdle
    /\ calls = <<>>
    /\ cache = <<>>
    /\ \E x \in NotesDocs, t \in Texts :
        rewrite = [pc |-> "start", notes_xml |-> x, notes_text |-> t,
                   once |-> x, twice |-> x]

\* updated = _set_notes_text(notes_xml, notes_text)
SetNotesText ==
    /\ rewrite.pc = "start"
    /\ rewrite' = [rewrite EXCEPT
                     !.once = _set_notes_text(rewrite.notes_xml, rewrite.notes_text),
                     !.pc = "once"]
    /\ UNCHANGED <<fs, original, engine, calls, cache>>

\* _set_notes_text(updated, notes_text)
SetNotesTextAgain ==
    /\ rewrite.pc = "once"
    /\ rewrite' = [rewrite EXCEPT
                     !.twice = _set_notes_text(rewrite.once, rewrite.notes_text),
                     !.pc = "twice"]
    /\ UNCHANGED <<fs, original, engine, calls, cache>>

RewriteNext == SetNotesText \/ SetNotesTextAgain

SpecRewrite == RewriteInit /\ [][RewriteNext]_vars

\* the part has a text body the rewriter works on
HasTarget(notes_xml) ==
    /\ TargetShape(notes_xml.shapes) # 0
    /\ notes_xml.shapes[TargetShape(notes_xml.shapes)].tx # ""

\* the paragraphs of the target text body, in order
Paragraphs(notes_xml) ==
    SelectSeq(notes_xml.shapes[TargetShape(notes_xml.shapes)].kids,
              LAMBDA kid : kid.tag = "p")

\* C14: rewriting the output of a rewrite with the same text gives the
\* output again, byte for byte.
C14_RewriteIdempotent ==
    rewrite.pc = "twice" => rewrite.twice = rewrite.once

\* a part with an old paragraph was rewritten, changed, and rewritten again
C14_Witness ==
    /\ rewrite.pc = "twice"
    /\ HasTarget(rewrite.notes_xml)
    /\ Paragraphs(rewrite.notes_xml) # <<>>
    /\ rewrite.once # rewrite.notes_xml
    /\ Len(Paragraphs(rewrite.once)) >= 2
    /\ rewrite.twice = rewrite.once

\* Where a text breaks into lines: at a line feed, at a control character,
\* and at a carriage return that no line feed follows (one that a line feed
\* follows belongs to that line feed's break).
BreaksAt(t, k) ==
    \/ t[k] \in {LF, CTL}
    \/ t[k] = CR /\ ~(k < Len(t) /\ t[k + 1] = LF)
Breaks(t) == {k \in 1..Len(t) : BreaksAt(t, k)}

\* position of the n-th break; 0 before the first, Len(t) + 1 after the last
BreakPos(t, n) ==
    IF n = 0 THEN 0
    ELSE IF n > Cardinality(Breaks(t)) THEN Len(t) + 1
    ELSE CHOOSE k \in Breaks(t) : Cardinality({m \in Breaks(t) : m <= k}) = n

\* the n-th line of the normalized text: what stands between two breaks
NormalizedLine(t, n) ==
    SelectSeq(SubSeq(t, BreakPos(t, n - 1) + 1, BreakPos(t, n) - 1), LAMBDA c : c # CR)

Rewritten == rewrite.pc \in {"once", "twice"} /\ HasTarget(rewrite.notes_xml)

\* C15: after a rewrite the target text body holds one paragraph per line of
\* the normalized text, in order, each with one run whose text is the line,
\* and no other paragraph; the empty text gives one paragraph with an
\* empty run.
C15_OneParagraphPerLine ==
    Rewritten =>
        LET ps == Paragraphs(rewrite.once)
            t == rewrite.notes_text
        IN /\ Len(ps) = Cardinality(Breaks(t)) + 1
           /\ \A n \in 1..Len(ps) : ps[n].t = NormalizedLine(t, n)
           /\ t = <<>> => ps = <<Para(FALSE, <<>>)>>

\* the empty text replaced the old paragraph by one empty paragraph
C15_Witness ==
    /\ Rewritten
    /\ rewrite.notes_text = <<>>
    /\ Paragraphs(rewrite.notes_xml) = <<Para(FALSE, <<"h">>)>>
    /\ Paragraphs(rewrite.once) = <<Para(FALSE, <<>>)>>

\* the line, surrounding whitespace aside, starts with one of the two markers
StartsWithMarker(line) ==
    \E m \in 1..Len(line) :
        /\ line[m] \in {ShortMarker, OriginalMarker}
        /\ \A n \in 1..(m - 1) : line[n] \in {" ", TAB}

\* C16: the run of a line is bold if and only if the trimmed line starts
\* with "- Short version:" or "- Original:", in that very case.
C16_BoldIffMarker ==
    Rewritten =>
        \A n \in 1..Len(Paragraphs(rewrite.once)) :
            Paragraphs(rewrite.once)[n].b
                <=> StartsWithMarker(NormalizedLine(rewrite.notes_text, n))

\* a marker after a blank made its run bold, next to a run that is not
C16_Witness ==
    /\ Rewritten
    /\ \E n \in 1..Len(Paragraphs(rewrite.once)) :
        /\ Paragraphs(rewrite.once)[n].b
        /\ Paragraphs(rewrite.once)[n].t = <<" ", OriginalMarker>>
    /\ \E n \in 1..Len(Paragraphs(rewrite.once)) : ~Paragraphs(rewrite.once)[n].b

-----------------------------------------------------------------------------
(* process_notes_workflow: each item of notes_data is checked and          *)
(* formatted in turn, then the formatted batch goes to                     *)
(* handle_update_notes_batch.                                              *)

NotDict == [dict |-> FALSE, sn |-> NoneVal, short |-> NoneVal, orig |-> NoneVal]
NoteItem(sn, short, orig) == [dict |-> TRUE, sn |-> sn, short |-> short, orig |-> orig]

NoteItems ==
    { NoteItem(IntVal(1), StrVal(<<"x">>), StrVal(<<"y">>)),
      NoteItem(IntVal(3), StrVal(<<"x">>), StrVal(<<>>)),
      NotDict,
      NoteItem(StrForInt, StrVal(<<"x">>), StrVal(<<"y">>)),
      NoteItem(IntVal(2), IntForStr, StrVal(<<"y">>)),
      NoteItem(IntVal(4), StrVal(<<"x">>), StrVal(<<"y">>)) }

NotesData == UNION {[1..n -> NoteItems] : n \in 0..MaxBatch}

\* f"- Short version:\n{short_text}\n\n- Original:\n{original_text}"
formatted_text(short_text, original_text) ==
    <<ShortMarker, LF>> \o short_text \o <<LF, LF, OriginalMarker, LF>> \o original_text

\* what the loop over notes_data does with one item: "return" the failure
\* response, "raise" out of the handler, or "append" the formatted update.
\* validate_slide_number raises InvalidSlideNumberError, which is no
\* ValueError: the except clause around it does not catch it.
ItemOutcome(note_data, max_slides) ==
    IF ~note_data.dict THEN "return"
    ELSE IF note_data.sn.t # "int" THEN "return"
    ELSE IF note_data.short.t # "str" \/ note_data.orig.t # "str" THEN "return"
    ELSE IF note_data.sn.i < 1 \/ note_data.sn.i > max_slides THEN "raise"
    ELSE "append"

\* index of the first item the loop does not append, 0 if it appends all
FirstStop(notes_data, max_slides) ==
    LET stops == {k \in 1..Len(notes_data) : ItemOutcome(notes_data[k], max_slides) # "append"}
    IN IF stops = {} THEN 0 ELSE CHOOSE k \in stops : \A m \in stops : k <= m

WorkflowInit ==
    /\ fs = [p \in Paths |-> IF p = SrcPath THEN ZipFile(DeckA, TRUE) ELSE Absent]
    /\ original = ZipFile(DeckA, TRUE)
    /\ \E d \in NotesData :
        arguments = [entry |-> "workflow", in_place |-> TRUE, output_path |-> "",
                     notes_data |-> d, updates |-> <<>>]
    /\ pc = "call"
    /\ update_tuples = <<>>
    /\ pptx_out = ""
    /\ zin = <<>>
    /\ i = 0
    /\ notes_updates = <<>>
    /\ j = 0
    /\ exc = ""
    /\ fault = ""
    /\ unlink_failed = FALSE
    /\ result = NoResult
    /\ calls = <<>>
    /\ rewrite = <<>>
    /\ cache = <<>>

\* handle_process_notes_workflow up to its call of handle_update_notes_batch
HandleProcessNotesWorkflow ==
    /\ pc = "call"
    /\ arguments.entry = "workflow"
    /\ LET notes_data == arguments.notes_data
           max_slides == get_slide_count(fs[SrcPath])
           stop == FirstStop(notes_data, max_slides)
       IN IF notes_data = <<>>
             \/ (stop # 0 /\ ItemOutcome(notes_data[stop], max_slides) = "return")
          THEN /\ result' = [returned |-> TRUE, success |-> FALSE, updated_slides |-> 0]
               /\ pc' = "done"
               /\ UNCHANGED <<arguments, exc, fault>>
          ELSE IF stop # 0
          THEN /\ exc' = "InvalidSlideNumberError"
               /\ fault' = "validate"
               /\ pc' = "done"
               /\ UNCHANGED <<arguments, result>>
          ELSE /\ arguments' =
                    [arguments EXCEPT
                       !.entry = "tool",
                       !.updates = [k \in 1..Len(notes_data) |->
                           Request(notes_data[k].sn,
                                   StrVal(formatted_text(notes_data[k].short.s,
                                                         notes_data[k].orig.s)))]]
               /\ UNCHANGED <<pc, exc, fault, result>>
    /\ UNCHANGED <<aside, fs, original, update_tuples, pptx_out, zin, i, notes_updates,
                   j, unlink_failed>>

\* the workflow, and an update that meets no failure
WorkflowNext ==
    \/ HandleProcessNotesWorkflow
    \/ HandleUpdateNotesBatch
    \/ MkTemp
    \/ OpenIn
    \/ ResolveMiss
    \/ ResolveRewrite
    \/ ResolveDone
    \/ OpenOut
    \/ StreamEntry
    \/ CloseOut
    \/ Rename
    \/ Cleanup
    \/ Return

SpecWorkflow == WorkflowInit /\ [][WorkflowNext]_vars

\* the item is one the workflow has to refuse
InvalidNoteItem(note_data, max_slides) ==
    \/ ~note_data.dict
    \/ note_data.sn.t # "int"
    \/ note_data.short.t # "str"
    \/ note_data.orig.t # "str"
    \/ note_data.sn.i < 1
    \/ note_data.sn.i > max_slides

\* C17: when any item of notes_data is invalid (not an object, slide_number
\* not an integer, a text not a string, slide number out of range), the
\* workflow returns success=false and the file is unchanged, whatever valid
\* items come before it.
C17_InvalidItemReturnsFailure ==
    (/\ pc = "done"
     /\ \E k \in 1..Len(arguments.notes_data) :
            InvalidNoteItem(arguments.notes_data[k], get_slide_count(original)))
        => (result.returned /\ ~result.success /\ fs[SrcPath] = original)

-----------------------------------------------------------------------------
(* LRUCache.  Every operation runs under the cache's lock, so it is one    *)
(* step.  od is the OrderedDict, oldest first; clock counts operations and *)
(* used[key] is the clock at the key's last set or hit; last is the last   *)
(* operation and what it returned or evicted.                              *)

\* LRUCache(maxsize=3)
maxsize == 3

CacheKeys == {"key1", "key2", "key3", "key4"}
CacheValues == {"value1"}

CacheInit ==
    /\ EngineIdle
    /\ calls = <<>>
    /\ rewrite = <<>>
    /\ cache = [od |-> <<>>, clock |-> 0, used |-> [k \in CacheKeys |-> 0],
                last |-> [op |-> "", key |-> "", returned |-> None, evicted |-> None]]

InCache(od, key) == \E n \in 1..Len(od) : od[n].key = key
EntryOf(od, key) == od[CHOOSE n \in 1..Len(od) : od[n].key = key]
Without(od, key) == SelectSeq(od, LAMBDA e : e.key # key)

\* OrderedDict.move_to_end(key)
move_to_end(od, key) == Without(od, key) \o <<EntryOf(od, key)>>

\* the entry stays where it is
stay_in_place(od, key) == od

\* what a hit does to the order
touch(od, key) == move_to_end(od, key)

\* LRUCache.set
Set(key, value) ==
    /\ cache.clock < MaxOps
    /\ LET entry == [key |-> key, value |-> value, expired |-> FALSE,
                     created_at |-> cache.clock + 1]
           od == IF InCache(cache.od, key)
                 THEN move_to_end([n \in 1..Len(cache.od) |->
                                      IF cache.od[n].key = key THEN entry ELSE cache.od[n]],
                                  key)
                 ELSE Append(cache.od, entry)
           over == Len(od) > maxsize
       IN cache' = [od |-> IF over THEN Tail(od) ELSE od,
                    clock |-> cache.clock + 1,
                    used |-> [cache.used EXCEPT ![key] = cache.clock + 1],
                    last |-> [op |-> "set", key |-> key, returned |-> None,
                              evicted |-> IF over THEN Head(od) ELSE None]]
    /\ UNCHANGED <<fs, original, engine, calls, rewrite>>

\* LRUCache.get
Get(key) ==
    /\ cache.clock < MaxOps
    /\ IF ~InCache(cache.od, key)
       THEN cache' = [cache EXCEPT
                        !.clock = @ + 1,
                        !.last = [op |-> "get", key |-> key, returned |-> None,
                                  evicted |-> None]]
       ELSE IF EntryOf(cache.od, key).expired
       THEN cache' = [cache EXCEPT
                        !.od = Without(@, key),
                        !.clock = @ + 1,
                        !.last = [op |-> "get", key |-> key, returned |-> None,
                                  evicted |-> None]]
       ELSE cache' = [cache EXCEPT
                        !.od = touch(@, key),
                        !.clock = @ + 1,
                        !.used[key] = cache.clock + 1,
                        !.last = [op |-> "get", key |-> key,
                                  returned |-> EntryOf(cache.od, key).value,
                                  evicted |-> None]]
    /\ UNCHANGED <<fs, original, engine, calls, rewrite>>

\* LRUCache.delete
Delete(key) ==
    /\ cache.clock < MaxOps
    /\ cache' = [cache EXCEPT
                   !.od = Without(@, key),
                   !.clock = @ + 1,
                   !.last = [op |-> "delete", key |-> key, returned |-> None,
                             evicted |-> None]]
    /\ UNCHANGED <<fs, original, engine, calls, rewrite>>

\* time.time() passes the entry's expires_at
Expire(key) ==
    /\ InCache(cache.od, key)
    /\ ~EntryOf(cache.od, key).expired
    /\ cache' = [cache EXCEPT
                   !.od = [n \in 1..Len(@) |->
                             IF @[n].key = key THEN [@[n] EXCEPT !.expired = TRUE] ELSE @[n]]]
    /\ UNCHANGED <<fs, original, engine, calls, rewrite>>

CacheNext ==
    \E key \in CacheKeys :
        \/ \E value \in CacheValues : Set(key, value)
        \/ Get(key)
        \/ Delete(key)
        \/ Expire(key)

SpecCache == CacheInit /\ [][CacheNext]_vars

KeysIn(od) == {od[n].key : n \in 1..Len(od)}

\* the entry whose last set or hit lies furthest back
LeastRecentlyUsed(c) ==
    CHOOSE key \in KeysIn(c.od) : \A other \in KeysIn(c.od) : c.used[key] <= c.used[other]

\* the step is a set of a key that is not in the full cache
SetOverflows ==
    /\ cache'.clock = cache.clock + 1
    /\ cache'.last.op = "set"
    /\ ~InCache(cache.od, cache'.last.key)
    /\ Len(cache.od) = maxsize

\* C18: a set of a new key into a full LRUCache evicts exactly the entry
\* whose last set or hit lies furthest back and keeps every other entry,
\* and the cache never holds more than maxsize entries.
C18_EvictsLeastRecentlyUsed ==
    /\ [](Len(cache.od) <= maxsize)
    /\ [][SetOverflows =>
            /\ cache'.last.evicted # None
            /\ cache'.last.evicted.key = LeastRecentlyUsed(cache)
            /\ KeysIn(cache'.od) =
                 (KeysIn(cache.od) \ {LeastRecentlyUsed(cache)}) \cup {cache'.last.key}
            /\ \A key \in KeysIn(cache.od) \ {LeastRecentlyUsed(cache)} :
                 EntryOf(cache'.od, key) = EntryOf(cache.od, key)]_vars

\* a set has just evicted an entry while an entry created before it stays:
\* a hit had made the older one the more recently used
C18_Witness ==
    /\ cache.last.op = "set"
    /\ cache.last.evicted # None
    /\ \E n \in 1..Len(cache.od) :
        /\ cache.od[n].created_at < cache.last.evicted.created_at
        /\ cache.used[cache.od[n].key] > cache.od[n].created_at

-----------------------------------------------------------------------------
(* Order of the steps of one call *)

\* the step writes an entry to the output container
EntryWritten ==
    /\ pptx_out # ""
    /\ Len(fs'[pptx_out].entries) > Len(fs[pptx_out].entries)

\* the step replaces the target of an in-place call
TargetReplaced == arguments.in_place /\ fs'[SrcPath] # fs[SrcPath]

AfterCommit == {"finally", "return", "done"}

\* C19: an entry is written to the output only once every request has been
\* resolved and its part rewritten into the map; the entries of the source
\* are written once each, in order; in in-place mode the target is replaced
\* only by the rename that follows a fully successful stream, no step leads
\* back to a rename, and a call that succeeded has renamed.
C19_ResolveStreamCommit ==
    /\ [][/\ EntryWritten =>
               /\ i > Len(update_tuples)
               /\ \A k \in 1..Len(update_tuples) :
                      PartOf(k) # None =>
                          /\ PartOf(k) \in DOMAIN notes_updates
                          /\ notes_updates[PartOf(k)] = ExpectedData(PartOf(k))
               /\ namelist(fs'[pptx_out]) =
                      SubSeq(namelist(original), 1, Len(fs'[pptx_out].entries))
          /\ TargetReplaced =>
               /\ pc = "rename"
               /\ exc = ""
               /\ IsCompleteNew(fs[TmpPath])
               /\ fs'[SrcPath] = fs[TmpPath]
               /\ pc' = "finally"
          /\ (arguments.in_place /\ exc # "") => fs'[SrcPath] = fs[SrcPath]
          /\ pc \in AfterCommit => pc' \in AfterCommit]_vars
    /\ []((Succeeded /\ arguments.in_place)
            => (fs[SrcPath] # original /\ IsCompleteNew(fs[SrcPath])))

\* an in-place call with two requests for two notes parts went through
\* resolve, stream and rename
C19_Witness ==
    /\ Succeeded
    /\ arguments.in_place
    /\ Cardinality(DOMAIN notes_updates) = 2
    /\ fs[SrcPath] # original
    /\ IsCompleteNew(fs[SrcPath])
    /\ fs[TmpPath] = Absent

-----------------------------------------------------------------------------
(* Relationships that name a missing part *)

\* the request's slide has a notesSlide relationship whose target is no
\* entry of the container
Dangling(k) == PartOf(k) # None /\ ~HasEntry(original, PartOf(k))

\* C20: a request whose notesSlide relationship names a part that is not in
\* the container is skipped like a resolution miss: a call with such a
\* request that meets no I/O failure raises nothing and commits the
\* complete new container with the other requests applied.
C20_DanglingTargetSkipped ==
    (/\ pc = "done"
     /\ \E k \in 1..Len(update_tuples) : Dangling(k)
     /\ fault \in {"", "resolve"}
     /\ exc # "OSError")
        => (exc = "" /\ IsCompleteNew(fs[FinalPath]))

-----------------------------------------------------------------------------
(* Resolution over relationship parts of every shape.  One slide, two      *)
(* notes parts in the container; the slide's relationships part and the    *)
(* content of the first notes part vary.  The call meets no I/O failure.   *)

External == "External"

\* the segments of "http://example.com/notes.xml"
UrlTarget == <<"http:", "", "example.com", "notes.xml">>

\* relationship lists of ppt/slides/_rels/slide1.xml.rels
RelsSamples ==
    { <<LayoutRel, Rel(NotesSlideType, "/", NotesTarget(1), "")>>,
      <<Rel(NotesSlideType, "\\", NotesTarget(1), "")>>,
      <<Rel(SlideLayoutType, "/", NotesTarget(2), ""),
        Rel(NotesSlideType, "/", NotesTarget(1), "")>>,
      <<Rel(NotesSlideType, "/", NotesTarget(2), External),
        Rel(NotesSlideType, "/", NotesTarget(1), "")>>,
      <<Rel(NotesSlideType, "/", UrlTarget, External)>>,
      <<Rel(NotesSlideType, "/", <<"notesSlide1.xml">>, "")>>,
      <<Rel(NotesSlideType, "/", <<"..", "..", "ppt", "notesSlides", "notesSlide1.xml">>, "")>>,
      <<Rel(NotesSlideType, "/", <<>>, "")>>,
      <<LayoutRel>> }

\* a notes part without any text body
NoTextNotes == NotesXml(FALSE, << Shape("sldImg", "", <<>>) >>)

ResolveDeck(rels, notes1) ==
    << Entry(<<"[Content_Types].xml">>, Bin(1), ZIP_DEFLATED, 1, 0, 1, "", ""),
       Entry(SlideName(1), Bin(2), ZIP_DEFLATED, 2, 0, 1, "", ""),
       Entry(rel_path(1), RelsXml(rels), ZIP_DEFLATED, 2, 0, 1, "", ""),
       Entry(NotesName(1), notes1, ZIP_DEFLATED, 3, 0, 1, "", ""),
       Entry(NotesName(2), OldNotes("w"), ZIP_DEFLATED, 4, 0, 1, "", "") >>

ResolveDecks ==
    {ResolveDeck(rels, notes1) : rels \in RelsSamples, notes1 \in {OldNotes("h"), NoTextNotes}}

ResolveBatches ==
    { <<Request(IntVal(1), StrVal(T1))>>,
      <<Request(IntVal(1), StrVal(T2)), Request(IntVal(1), StrVal(T1))>> }

ResolveInit ==
    /\ \E deck \in ResolveDecks :
        /\ fs = [p \in Paths |-> IF p = SrcPath THEN ZipFile(deck, TRUE) ELSE Absent]
        /\ original = ZipFile(deck, TRUE)
    /\ \E ip \in BOOLEAN, b \in ResolveBatches :
        arguments = [entry |-> "tool", in_place |-> ip, output_path |-> "", updates |-> b]
    /\ pc = "call"
    /\ update_tuples = <<>>
    /\ pptx_out = ""
    /\ zin = <<>>
    /\ i = 0
    /\ notes_updates = <<>>
    /\ j = 0
    /\ exc = ""
    /\ fault = ""
    /\ unlink_failed = FALSE
    /\ result = NoResult
    /\ calls = <<>>
    /\ rewrite = <<>>
    /\ cache = <<>>

ResolveNext ==
    \/ HandleUpdateNotesBatch
    \/ MkTemp
    \/ OpenIn
    \/ ResolveMiss
    \/ ResolveDangling
    \/ ResolveRewrite
    \/ ResolveDone
    \/ OpenOut
    \/ StreamEntry
    \/ CloseOut
    \/ Rename
    \/ Cleanup
    \/ Return

SpecResolve == ResolveInit /\ [][ResolveNext]_vars

\* the request now being resolved, and the relationships of its slide
Resolving == pc = "resolve" /\ i <= Len(update_tuples)
SlideRels == Relationships(read(Source, rel_path(slide_no)))

\* a relationship the resolution may select
Selectable(rel) == rel.Type = NotesSlideType /\ rel.TargetMode # External

\* C21: when a request resolves to a notes part, that part is the target of
\* the first relationship of the slide whose type is the notesSlide type and
\* whose target mode is not External; relationships of other types and
\* External ones are passed over.
C21_OnlyInternalNotesRelationships ==
    (Resolving /\ notes_part # None) =>
        \E k \in 1..Len(SlideRels) :
            /\ Selectable(SlideRels[k])
            /\ \A m \in 1..(k - 1) : ~Selectable(SlideRels[m])
            /\ notes_part = NormalizeTarget(SlideRels[k].Target)

\* a path resolved against a directory: ".." leaves the directory it is in,
\* any other segment enters
RECURSIVE ResolveSegments(_, _)
ResolveSegments(dir, segs) ==
    IF segs = <<>> THEN dir
    ELSE IF segs[1] = ".."
         THEN ResolveSegments(IF dir = <<>> THEN <<>> ELSE SubSeq(dir, 1, Len(dir) - 1),
                              Tail(segs))
         ELSE ResolveSegments(Append(dir, segs[1]), Tail(segs))

\* directory of the slide parts
SlideDir == <<"ppt", "slides">>

\* the first notesSlide relationship of the slide
FirstNotesRel ==
    SlideRels[CHOOSE k \in 1..Len(SlideRels) :
                /\ SlideRels[k].Type = NotesSlideType
                /\ \A m \in 1..(k - 1) : SlideRels[m].Type # NotesSlideType]

\* C22: the notes part a request resolves to is the relationship's target
\* resolved against ppt/slides/, every ".." segment consumed.
C22_TargetResolvedAgainstSlideDir ==
    (Resolving /\ notes_part # None) =>
        notes_part = ResolveSegments(SlideDir, FirstNotesRel.Target.segs)

-----------------------------------------------------------------------------
(* Several requests for one notes part *)

\* the part rewritten from its original bytes with the text of the last
\* request that resolves to it
LastRewrite(name) ==
    _set_notes_text(read(original, name), update_tuples[LastRequestFor(name)][2])

\* parts that two or more requests of the batch resolve to
RepeatedParts == {name \in ResolvedParts : Cardinality(RequestsFor(name)) >= 2}

\* C23: when several requests of a batch resolve to one notes part, the map
\* of rewritten parts holds, once the loop is over, the rewrite of the
\* part's original bytes with the text of the last of them, and that is the
\* payload of the part in the committed container.
C23_LastRequestOnOriginalBytes ==
    /\ (pc = "open_out" /\ exc = "") =>
          \A name \in RepeatedParts : notes_updates[name] = LastRewrite(name)
    /\ Succeeded =>
          \A name \in RepeatedParts : read(fs[FinalPath], name) = LastRewrite(name)

\* two requests with different texts for one part: the committed part has
\* the text of the second and not that of the first
C23_Witness ==
    /\ Succeeded
    /\ \E name \in RepeatedParts :
         \E k \in RequestsFor(name) :
            /\ k < LastRequestFor(name)
            /\ update_tuples[k][2] # update_tuples[LastRequestFor(name)][2]
            /\ read(fs[FinalPath], name) = LastRewrite(name)
            /\ read(fs[FinalPath], name)
                  # _set_notes_text(read(original, name), update_tuples[k][2])

-----------------------------------------------------------------------------
(* The shape and the text body that a rewrite works on *)

\* the part after the rewrite, and the part and text it was made from
Before == rewrite.notes_xml
After == rewrite.once
Applied == rewrite.pc \in {"once", "twice"}

HasBodyShape(notes_xml) == \E k \in 1..Len(notes_xml.shapes) : notes_xml.shapes[k].ph = "body"
HasTextBody(notes_xml) == \E k \in 1..Len(notes_xml.shapes) : notes_xml.shapes[k].tx # ""

\* the paragraphs of a shape's text body
ParagraphsOf(shape) == SelectSeq(shape.kids, LAMBDA kid : kid.tag = "p")
\* its other children
SiblingsOf(shape) == SelectSeq(shape.kids, LAMBDA kid : kid.tag # "p")

\* C24: when the part has a shape with a body placeholder, the first such
\* shape is the only shape a rewrite changes, whatever shapes with a text
\* body come before it, and the paragraphs of its text body are those of
\* the new text.
C24_FirstBodyShapeOnly ==
    (Applied /\ HasBodyShape(Before)) =>
        \E b \in 1..Len(Before.shapes) :
            /\ Before.shapes[b].ph = "body"
            /\ \A m \in 1..(b - 1) : Before.shapes[m].ph # "body"
            /\ Len(After.shapes) = Len(Before.shapes)
            /\ \A k \in 1..Len(Before.shapes) : k # b => After.shapes[k] = Before.shapes[k]
            /\ Before.shapes[b].tx # "" =>
                  ParagraphsOf(After.shapes[b]) = NewParagraphs(rewrite.notes_text)

\* a text shape, then two body placeholders: the first placeholder got the
\* new text, the shape before it and the placeholder after it kept theirs
C24_Witness ==
    /\ Applied
    /\ Len(Before.shapes) = 3
    /\ Before.shapes[1].tx # ""
    /\ Before.shapes[2].ph = "body"
    /\ Before.shapes[3].ph = "body"
    /\ rewrite.notes_text = <<"x">>
    /\ ParagraphsOf(After.shapes[2]) = <<Para(FALSE, <<"x">>)>>
    /\ After.shapes[1] = Before.shapes[1]
    /\ After.shapes[3] = Before.shapes[3]
    /\ ParagraphsOf(After.shapes[3]) # <<Para(FALSE, <<"x">>)>>

\* C25: when the part has no shape with a body placeholder but has shapes
\* with a text body, in whichever namespace, the paragraphs of the first
\* such shape's text body are those of the new text after a rewrite.
C25_FallbackToFirstTextBody ==
    (Applied /\ ~HasBodyShape(Before) /\ HasTextBody(Before)) =>
        \E f \in 1..Len(Before.shapes) :
            /\ Before.shapes[f].tx # ""
            /\ \A m \in 1..(f - 1) : Before.shapes[m].tx = ""
            /\ ParagraphsOf(After.shapes[f]) = NewParagraphs(rewrite.notes_text)

\* C27: a rewrite keeps every child of the target text body that is no
\* paragraph, with its content and in the order they had, and has them all
\* before the paragraphs; the text body has nothing else than these and the
\* new paragraphs; the shape's placeholder and every other shape are as
\* they were.
C27_OnlyParagraphsReplaced ==
    Rewritten =>
        LET sp == TargetShape(Before.shapes)
            old == Before.shapes[sp]
            new == After.shapes[sp]
        IN /\ SiblingsOf(new) = SiblingsOf(old)
           /\ \A a, b \in 1..Len(new.kids) :
                 (new.kids[a].tag # "p" /\ new.kids[b].tag = "p") => a < b
           /\ Len(new.kids) = Len(SiblingsOf(old)) + Len(lines(rewrite.notes_text))
           /\ new.ph = old.ph /\ new.tx = old.tx
           /\ Len(After.shapes) = Len(Before.shapes)
           /\ \A k \in 1..Len(Before.shapes) : k # sp => After.shapes[k] = Before.shapes[k]

\* a text body with body properties between two paragraphs, next to no
\* other shape: the properties stayed, before the two new paragraphs
C27_Witness ==
    /\ Rewritten
    /\ Before.shapes[TargetShape(Before.shapes)].kids
          = <<Para(TRUE, <<"q">>), Other("bodyPr"), Para(FALSE, <<"r">>)>>
    /\ After.shapes[TargetShape(Before.shapes)].kids
          = <<Other("bodyPr"), Para(FALSE, <<"x">>), Para(FALSE, <<>>)>>

\* The text with every CRLF pair and every lone CR turned into one LF and
\* every other control character but tab and LF into one LF, in one pass.
RECURSIVE Normalized(_)
Normalized(t) ==
    IF t = <<>> THEN <<>>
    ELSE IF t[1] = CR /\ Len(t) >= 2 /\ t[2] = LF
         THEN <<LF>> \o Normalized(SubSeq(t, 3, Len(t)))
         ELSE IF t[1] \in {CR, CTL}
              THEN <<LF>> \o Normalized(Tail(t))
              ELSE <<t[1]>> \o Normalized(Tail(t))

\* the run texts of the paragraphs with a line feed between each two
RECURSIVE JoinRuns(_)
JoinRuns(ps) ==
    IF ps = <<>> THEN <<>>
    ELSE IF Len(ps) = 1 THEN ps[1].t
         ELSE ps[1].t \o <<LF>> \o JoinRuns(Tail(ps))

LineFeeds(t) == Cardinality({k \in 1..Len(t) : t[k] = LF})

\* C28: the runs of the rewritten text body, joined by line feeds, spell the
\* normalized text; no run holds a line feed, a carriage return or another
\* control character (a tab stays); and there are as many paragraphs as
\* line feeds in the normalized text, plus one.
C28_NormalizedThenSplit ==
    Rewritten =>
        LET ps == Paragraphs(After)
        IN /\ JoinRuns(ps) = Normalized(rewrite.notes_text)
           /\ \A n \in 1..Len(ps) : \A k \in 1..Len(ps[n].t) : ps[n].t[k] \notin {LF, CR, CTL}
           /\ Len(ps) = 1 + LineFeeds(Normalized(rewrite.notes_text))

\* a CRLF pair made one break, and the tab after it is in its run
C28_Witness ==
    /\ Rewritten
    /\ \E k \in 1..(Len(rewrite.notes_text) - 1) :
          rewrite.notes_text[k] = CR /\ rewrite.notes_text[k + 1] = LF
    /\ Len(Paragraphs(After)) = 2
    /\ Paragraphs(After)[2].t = <<TAB>>

-----------------------------------------------------------------------------
(* Parts without a text body *)

NoTextBody(notes_xml) == ~HasBodyShape(notes_xml) /\ ~HasTextBody(notes_xml)

\* the parts of the batch that have neither body placeholder nor text body
TextlessParts ==
    {name \in ResolvedParts : HasEntry(original, name) /\ NoTextBody(read(original, name))}

\* C26: a request that resolves to a part with neither a body placeholder
\* nor a shape with a text body raises nothing; the rewrite it stores is
\* the part's bytes as they were; and the call, unless another request
\* names a missing part, succeeds and commits those bytes.
C26_NoTextBodyIsNoOp ==
    /\ (pc = "open_out" /\ exc = "") =>
          \A name \in TextlessParts : notes_updates[name] = read(original, name)
    /\ (pc = "done" /\ TextlessParts # {} /\ \A k \in 1..Len(update_tuples) : ~Dangling(k)) =>
          /\ exc = ""
          /\ result.success
          /\ \A name \in TextlessParts : read(fs[FinalPath], name) = read(original, name)

\* an in-place call for a slide whose notes part is a lone picture
\* placeholder succeeded and the committed part is the original
C26_Witness ==
    /\ Succeeded
    /\ arguments.in_place
    /\ TextlessParts = {NotesName(1)}
    /\ result.success
    /\ fs[SrcPath].complete
    /\ read(fs[SrcPath], NotesName(1)) = NoTextNotes
    /\ fs[TmpPath] = Absent

-----------------------------------------------------------------------------
(* Temp files of concurrent invocations *)

\* the invocations whose temp file the file under a name is: they were given
\* the name by mkstemp and have neither renamed the file nor finished
Holders(n) ==
    {q \in Invocations :
        /\ calls[q].tmp_file = n
        /\ calls[q].renamed = 0
        /\ calls[q].pc \in {"open_in", "resolve", "open_out", "stream", "rename", "finally"}}

\* the invocation takes the step
Acts(p) == calls'[p] # calls[p]

\* C29: an invocation writes to, renames or deletes a temp file only when it
\* is the one that holds it, and the cleanup of an invocation leaves the
\* target as it is.
C29_OwnTempFileOnly ==
    [][\A p \in Invocations :
          /\ \A n \in TmpNames :
                (Acts(p) /\ fs[n].kind # "absent" /\ fs'[n] # fs[n]) => p \in Holders(n)
          /\ (Acts(p) /\ calls[p].pc = "finally") => fs'[SrcPath] = fs[SrcPath]]_vars

-----------------------------------------------------------------------------
(* update_notes_safe as a function of the container and the batch: one     *)
(* batch applied at once, the same batch in another order, and its         *)
(* requests applied one after the other, each to the container the one     *)
(* before left.                                                            *)

\* Three slides, each with a notes part; the text bodies differ in their
\* formatting children.
DeckD ==
    << Entry(SlideName(1), Bin(2), ZIP_DEFLATED, 2, 0, 1, "", ""),
       Entry(rel_path(1), RelsXml(<<Rel(NotesSlideType, "/", NotesTarget(1), "")>>),
             ZIP_DEFLATED, 2, 0, 1, "", ""),
       Entry(NotesName(1), OldNotes("h"), ZIP_DEFLATED, 3, 0, 1, "", ""),
       Entry(SlideName(2), Bin(3), ZIP_DEFLATED, 2, 0, 1, "", ""),
       Entry(rel_path(2), RelsXml(<<LayoutRel, Rel(NotesSlideType, "/", NotesTarget(2), "")>>),
             ZIP_DEFLATED, 2, 0, 1, "", ""),
       Entry(NotesName(2),
             NotesXml(FALSE, << Shape("body", "p", <<Other("bodyPr"), Para(TRUE, <<"w">>)>>) >>),
             ZIP_STORED, 4, 0, 1, "", ""),
       Entry(SlideName(3), Bin(4), ZIP_DEFLATED, 2, 0, 1, "", ""),
       Entry(rel_path(3), RelsXml(<<Rel(NotesSlideType, "/", NotesTarget(3), "")>>),
             ZIP_DEFLATED, 2, 0, 1, "", ""),
       Entry(NotesName(3),
             NotesXml(FALSE, << Shape("body", "p", <<Para(FALSE, <<"v">>)>>) >>),
             ZIP_DEFLATED, 5, 0, 1, "", "") >>

\* update_notes_safe(pptx_in, updates, pptx_out): what pptx_out holds after
\* the call, or the exception
update_notes_safe(src, updates) ==
    LET r == ResolveFrom(src, updates, 1, <<>>)
    IN IF r.exc # ""
       THEN [exc |-> r.exc, out |-> Absent]
       ELSE [exc |-> "",
             out |-> [StreamFrom(src, r.notes_updates, 1, ZipFile(<<>>, FALSE))
                        EXCEPT !.complete = TRUE]]

\* slide 4 has no relationships part
UpdateTuples == {<<n, t>> : n \in 1..4, t \in {T1, T2}}

\* batches no two requests of which resolve to the same part
DistinctBatches ==
    {b \in UNION {[1..n -> UpdateTuples] : n \in 0..MaxBatch} :
        \A x, y \in 1..Len(b) : x # y => b[x][1] # b[y][1]}

Orders(n) == {f \in [1..n -> 1..n] : \A x, y \in 1..n : x # y => f[x] # f[y]}

Runs == {"batch", "permuted", "single"}

PermuteInit ==
    /\ EngineIdle
    /\ rewrite = <<>>
    /\ cache = <<>>
    /\ \E b \in DistinctBatches : \E f \in Orders(Len(b)) :
        calls = [r \in Runs |->
                    [pc |-> "start",
                     updates |-> IF r = "permuted" THEN [k \in 1..Len(b) |-> b[f[k]]] ELSE b,
                     k |-> 1,
                     exc |-> "",
                     out |-> ZipFile(DeckD, TRUE)]]

\* one call with the whole batch; the runs are made one after the other
UpdateBatch(r) ==
    /\ r \in {"batch", "permuted"}
    /\ calls[r].pc = "start"
    /\ r = "permuted" => calls["batch"].pc = "done"
    /\ LET res == update_notes_safe(ZipFile(DeckD, TRUE), calls[r].updates)
       IN calls' = [calls EXCEPT ![r].out = res.out, ![r].exc = res.exc, ![r].pc = "done"]
    /\ UNCHANGED <<fs, original, engine, rewrite, cache>>

\* one call with the next request alone, on the container of the call before
UpdateSingle ==
    /\ calls["single"].pc = "start"
    /\ calls["permuted"].pc = "done"
    /\ calls["single"].k <= Len(calls["single"].updates)
    /\ LET res == update_notes_safe(calls["single"].out,
                                    <<calls["single"].updates[calls["single"].k]>>)
       IN calls' = [calls EXCEPT !["single"].out = res.out,
                                 !["single"].exc = res.exc,
                                 !["single"].k = @ + 1]
    /\ UNCHANGED <<fs, original, engine, rewrite, cache>>

\* no request is left
SinglesDone ==
    /\ calls["single"].pc = "start"
    /\ calls["permuted"].pc = "done"
    /\ calls["single"].k > Len(calls["single"].updates)
    /\ calls' = [calls EXCEPT !["single"].pc = "done"]
    /\ UNCHANGED <<fs, original, engine, rewrite, cache>>

PermuteNext ==
    \/ \E r \in Runs : UpdateBatch(r)
    \/ UpdateSingle
    \/ SinglesDone

SpecPermute == PermuteInit /\ [][PermuteNext]_vars

Payloads(zfile) == [k \in 1..Len(zfile.entries) |-> zfile.entries[k].data]

AllDone == \A r \in Runs : calls[r].pc = "done"

\* C30: a batch whose requests resolve to pairwise distinct parts gives the
\* same output container in every order of its requests, and applying the
\* requests one by one, each to the output of the one before, gives a
\* container with the same entry names and payloads.
C30_OrderAndGroupingIrrelevant ==
    AllDone =>
        /\ calls["batch"].exc = ""
        /\ calls["permuted"].out = calls["batch"].out
        /\ namelist(calls["single"].out) = namelist(calls["batch"].out)
        /\ Payloads(calls["single"].out) = Payloads(calls["batch"].out)

\* three requests for three parts, taken in another order and one by one:
\* all three parts are rewritten, the same way each time
C30_Witness ==
    /\ AllDone
    /\ Len(calls["batch"].updates) = 3
    /\ calls["permuted"].updates # calls["batch"].updates
    /\ \A n \in 1..3 :
          /\ \E k \in 1..3 : calls["batch"].updates[k][1] = n
          /\ read(calls["batch"].out, NotesName(n)) # read(ZipFile(DeckD, TRUE), NotesName(n))
          /\ read(calls["single"].out, NotesName(n)) = read(calls["batch"].out, NotesName(n))
    /\ calls["permuted"].out = calls["batch"].out

====
